---- MODULE Spec2Model ----
(***************************************************************************)
(* Grid combat environment (wargame2d): WorldState, MovementResolver,      *)
(* CombatResolver, SensorSystem, VictoryConditions and the turn loop of    *)
(* GridCombatEnv.reset / GridCombatEnv.step.                               *)
(*                                                                         *)
(* Conventions of the model:                                               *)
(*  - positions are pairs <<x, y>> of integers; distances are compared     *)
(*    through their squares (d <= r  iff  d*d <= r*r for d, r >= 0);       *)
(*  - probabilities are integers in percent (0..100);                      *)
(*  - an Optional value is "NONE" for a team and a 0/1-length sequence     *)
(*    for env.world;                                                       *)
(*  - record constructors list their fields in one fixed order (that of    *)
(*    the fields' first use in this module);                               *)
(*  - Entity.last_action and the log strings are not modelled (no          *)
(*    behaviour reads them), so resolve_waits has no effect here.          *)
(***************************************************************************)
EXTENDS Integers, Sequences, FiniteSets, TLC

VARIABLES
    world,      \* GridCombatEnv.world : << >> (None) or << WorldState >>
    twin,       \* the world of a second, independent run given the same inputs
    config,     \* GridCombatEnv._max_* / _check_missile_exhaustion (the VictoryConditions config)
    last        \* what the last call did: its inputs, intermediate results and return value

vars == <<world, twin, config, last>>

(***************************************************************************)
(* Bounds of the model                                                     *)
(***************************************************************************)
MaxTurn == 2        \* step() is called while world.turn < MaxTurn ...
MaxTurnLarge == 1   \* ... or < MaxTurnLarge in a world of more than SmallWorld entities
SmallWorld == 2
MaxActors == 2      \* an action map has at most MaxActors keys
MaxEntropy == 1     \* the system entropy seeding an unseeded generator is in 0..MaxEntropy
MaxTurnSam == 5     \* the radar-site runs call step() while world.turn < MaxTurnSam
MaxCrowd == 3       \* an action map of the crowded turns has at most MaxCrowd keys
MaxRange == 3       \* the weapon runs give a radar site a missile_max_range of at most MaxRange
MaxRushSeed == 5    \* the contended turns seed the generator with 0..MaxRushSeed

(***************************************************************************)
(* core/types.py                                                           *)
(***************************************************************************)
Team == {"BLUE", "RED"}

opponent(t) == IF t = "BLUE" THEN "RED" ELSE "BLUE"

MoveDir == {"UP", "DOWN", "LEFT", "RIGHT"}

delta(d) ==
    CASE d = "UP"    -> <<0, 1>>
      [] d = "DOWN"  -> <<0, -1>>
      [] d = "LEFT"  -> <<-1, 0>>
      [] d = "RIGHT" -> <<1, 0>>

\* ActionValidation.success() / ActionValidation.fail(code, msg)
ValidationSuccess == [valid |-> TRUE, error_code |-> "NONE"]
ValidationFail(code) == [valid |-> FALSE, error_code |-> code]

(***************************************************************************)
(* core/actions.py : Action and its factory methods.  All action records   *)
(* carry the same fields so that they can be compared.                     *)
(***************************************************************************)
ActionWait == [type |-> "WAIT", dir |-> "NONE", target_id |-> 0, on |-> FALSE]
ActionMove(d) == [type |-> "MOVE", dir |-> d, target_id |-> 0, on |-> FALSE]
ActionShoot(t) == [type |-> "SHOOT", dir |-> "NONE", target_id |-> t, on |-> FALSE]
ActionToggle(b) == [type |-> "TOGGLE", dir |-> "NONE", target_id |-> 0, on |-> b]

\* actions.get(entity.id): the action stored under a key, or NoAction when the key is absent
NoAction == [type |-> "ABSENT", dir |-> "NONE", target_id |-> 0, on |-> FALSE]
ActionsGet(actions, id) == IF id \in DOMAIN actions THEN actions[id] ELSE NoAction

(***************************************************************************)
(* core/observations.py : Observation, what a team knows of one entity in  *)
(* the current turn                                                        *)
(***************************************************************************)
Observation(entity_id, kind, team, position, seen_by) ==
    [entity_id |-> entity_id, kind |-> kind, team |-> team,
     position |-> position, seen_by |-> seen_by]

(***************************************************************************)
(* world/grid.py                                                           *)
(***************************************************************************)
in_bounds(grid, pos) ==
    /\ 0 <= pos[1] /\ pos[1] < grid.width
    /\ 0 <= pos[2] /\ pos[2] < grid.height

\* square of Grid.distance (math.hypot)
distance2(a, b) == (a[1] - b[1]) * (a[1] - b[1]) + (a[2] - b[2]) * (a[2] - b[2])

\* floor of the square root, for the one place that needs the distance itself
RECURSIVE isqrt_between(_, _, _)
isqrt_between(n, lo, hi) ==
    IF lo >= hi THEN lo
    ELSE LET mid == (lo + hi + 1) \div 2
         IN IF mid * mid <= n THEN isqrt_between(n, mid, hi)
            ELSE isqrt_between(n, lo, mid - 1)

\* Grid.distance scaled by 100 (two decimals, rounded down)
distance100(a, b) == isqrt_between(10000 * distance2(a, b), 0, 100 * distance2(a, b))

(***************************************************************************)
(* entities : one record shape for the four kinds.  has_missiles models    *)
(* hasattr(entity, 'missiles'); is_sam models isinstance(entity, SAM).     *)
(***************************************************************************)
AWACS(id, team, pos, radar_range) ==
    [on |-> FALSE, id |-> id, kind |-> "awacs", team |-> team, pos |-> pos,
     radar_range |-> radar_range, alive |-> TRUE, can_move |-> TRUE,
     can_shoot |-> FALSE, has_missiles |-> FALSE, missiles |-> 0,
     missile_max_range |-> 0, base_hit_prob |-> 0,
     min_hit_prob |-> 0, cooldown_steps |-> 0, cooldown |-> 0]

Decoy(id, team, pos) ==
    [on |-> FALSE, id |-> id, kind |-> "decoy", team |-> team, pos |-> pos,
     radar_range |-> 0, alive |-> TRUE, can_move |-> TRUE,
     can_shoot |-> FALSE, has_missiles |-> FALSE, missiles |-> 0,
     missile_max_range |-> 0, base_hit_prob |-> 0,
     min_hit_prob |-> 0, cooldown_steps |-> 0, cooldown |-> 0]

SAM(id, team, pos, radar_range, missiles, max_range, base, minp, cooldown_steps, on) ==
    [on |-> on, id |-> id, kind |-> "sam", team |-> team, pos |-> pos,
     radar_range |-> radar_range, alive |-> TRUE, can_move |-> FALSE,
     can_shoot |-> TRUE, has_missiles |-> TRUE, missiles |-> missiles,
     missile_max_range |-> max_range, base_hit_prob |-> base,
     min_hit_prob |-> minp, cooldown_steps |-> cooldown_steps, cooldown |-> 0]

Aircraft(id, team, pos, radar_range, missiles, max_range, base, minp) ==
    [on |-> FALSE, id |-> id, kind |-> "aircraft", team |-> team, pos |-> pos,
     radar_range |-> radar_range, alive |-> TRUE, can_move |-> TRUE,
     can_shoot |-> TRUE, has_missiles |-> TRUE, missiles |-> missiles,
     missile_max_range |-> max_range, base_hit_prob |-> base,
     min_hit_prob |-> minp, cooldown_steps |-> 0, cooldown |-> 0]

\* SAM.__post_init__: what the construction of a radar site checks
sam_post_init(e) == e.missiles >= 0 /\ e.missile_max_range > 0 /\ e.cooldown_steps >= 0

\* get_active_radar_range of a radar that is active whether the site is on or off
get_active_radar_range_always_on(e) == e.radar_range

\* SAM.get_active_radar_range overrides Entity.get_active_radar_range
get_active_radar_range(e) ==
    IF e.kind = "sam" THEN (IF e.on THEN e.radar_range ELSE 0) ELSE e.radar_range

(***************************************************************************)
(* world/team_view.py                                                      *)
(***************************************************************************)
\* TeamView.__init__
TeamView(team) ==
    [team |-> team, observations |-> {}, friendly_ids |-> {},
     visible_enemy_ids |-> {}, enemy_firing_history |-> {}]

\* TeamView.reset that forgets the firing history as well
TeamViewReset_forgetting(tv) == TeamView(tv.team)

\* TeamView.reset: the firing history persists
TeamViewReset(tv) ==
    [tv EXCEPT !.observations = {}, !.friendly_ids = {}, !.visible_enemy_ids = {}]

\* add_friendly_id that registers nothing
add_friendly_id_dropped(tv, id) == tv

\* TeamView.add_friendly_id
add_friendly_id(tv, id) == [tv EXCEPT !.friendly_ids = @ \cup {id}]

\* TeamView.add_observation: one observation per entity id, observers merged
add_observation(tv, obs) ==
    LET old == {o \in tv.observations : o.entity_id = obs.entity_id}
        merged == IF old = {} THEN obs
                  ELSE LET o == CHOOSE o \in old : TRUE
                       IN [o EXCEPT !.seen_by = @ \cup obs.seen_by]
    IN [tv EXCEPT !.observations = (@ \ old) \cup {merged},
                  !.visible_enemy_ids =
                      IF obs.team # tv.team THEN @ \cup {obs.entity_id} ELSE @]

\* TeamView.can_target
can_target(tv, entity_id) == entity_id \in tv.visible_enemy_ids

\* TeamView.record_enemy_fired
record_enemy_fired(tv, entity_id) ==
    [tv EXCEPT !.enemy_firing_history = @ \cup {entity_id}]

\* TeamView.has_enemy_fired
has_enemy_fired(tv, entity_id) == entity_id \in tv.enemy_firing_history

(***************************************************************************)
(* world/world.py : WorldState                                             *)
(***************************************************************************)
\* random.Random(seed): the generator state reached from an integer seed
SeedRng(seed) == seed % 16

\* one draw of the generator: the next state
RngNext(rng) == (5 * rng + 3) % 16

\* Random.random() in percent, after the draw
RngRandom100(rng) == (RngNext(rng) * 100) \div 16

\* Random._randbelow(n), after the draw
RngBelow(rng, n) == (RngNext(rng) \div 2) % n

\* seed = None
NoSeed == -1

\* WorldState.__init__ with a generator that is never given the seed
WorldState_unseeded(width, height, seed, entropy) ==
    [grid |-> [width |-> width, height |-> height],
     rng |-> entropy,
     entities |-> << >>,
     team_views |-> [BLUE |-> TeamView("BLUE"), RED |-> TeamView("RED")],
     turn |-> 0, game_over |-> FALSE, winner |-> "NONE", game_over_reason |-> "",
     turns_without_shooting |-> 0, turns_without_movement |-> 0,
     pending_kills |-> {}]

\* WorldState.__init__: random.Random(seed) takes the seed, or the system's
\* entropy when the seed is None
WorldState(width, height, seed, entropy) ==
    [grid |-> [width |-> width, height |-> height],
     rng |-> IF seed = NoSeed THEN entropy ELSE SeedRng(seed),
     entities |-> << >>,
     team_views |-> [BLUE |-> TeamView("BLUE"), RED |-> TeamView("RED")],
     turn |-> 0, game_over |-> FALSE, winner |-> "NONE", game_over_reason |-> "",
     turns_without_shooting |-> 0, turns_without_movement |-> 0,
     pending_kills |-> {}]

\* indexes of the entity list
EntityIndexes(w) == DOMAIN w.entities

\* WorldState.get_all_entities (as a set of ids)
AllIds(w) == {w.entities[i].id : i \in EntityIndexes(w)}

\* index in the entity list of the entity with this id (_entities_by_id)
IndexOf(w, id) == CHOOSE i \in EntityIndexes(w) : w.entities[i].id = id

\* WorldState.get_entity
HasEntity(w, id) == id \in AllIds(w)
get_entity(w, id) == w.entities[IndexOf(w, id)]

\* WorldState.get_alive_entities: the alive entities, in list order
get_alive_entities(w) == SelectSeq(w.entities, LAMBDA e : e.alive)

\* WorldState.get_team_entities
get_team_entities(w, team, alive_only) ==
    SelectSeq(w.entities, LAMBDA e : e.team = team /\ (alive_only => e.alive))

\* is_position_occupied that takes a dead entity for an occupant
is_position_occupied_by_any(w, pos) ==
    \E i \in EntityIndexes(w) : w.entities[i].pos = pos

\* WorldState.is_position_occupied
is_position_occupied(w, pos) ==
    \E i \in EntityIndexes(w) : w.entities[i].alive /\ w.entities[i].pos = pos

\* add_entity that appends whatever it is given
add_entity_unvalidated(w, e) == [world |-> [w EXCEPT !.entities = Append(@, e)], ok |-> TRUE]

\* WorldState.add_entity: raises ValueError (ok = FALSE) and leaves the world alone
add_entity(w, e) ==
    IF ~in_bounds(w.grid, e.pos) THEN [world |-> w, ok |-> FALSE]
    ELSE IF is_position_occupied(w, e.pos) THEN [world |-> w, ok |-> FALSE]
    ELSE [world |-> [w EXCEPT !.entities = Append(@, e)], ok |-> TRUE]

\* mark_for_kill that also kills on the spot
mark_for_kill_at_once(w, entity_id) ==
    [w EXCEPT !.pending_kills = @ \cup {entity_id},
              !.entities = [i \in DOMAIN @ |->
                                IF @[i].id = entity_id THEN [@[i] EXCEPT !.alive = FALSE]
                                ELSE @[i]]]

\* WorldState.mark_for_kill
mark_for_kill(w, entity_id) == [w EXCEPT !.pending_kills = @ \cup {entity_id}]

\* WorldState.get_pending_kills
get_pending_kills(w) == w.pending_kills

\* clear_pending_kills that forgets to clear
clear_pending_kills_kept(w) == w

\* WorldState.clear_pending_kills
clear_pending_kills(w) == [w EXCEPT !.pending_kills = {}]

\* write back one entity
SetEntity(w, e) == [w EXCEPT !.entities[IndexOf(w, e.id)] = e]

\* str(entity_id) and int(key): the keys of a serialized mapping are strings
str(n) == <<"str", n>>
int(key) == key[2]

\* TeamView.to_dict: only the firing history is persistent
team_view_to_dict(tv) ==
    [team |-> tv.team, enemy_firing_history |-> {str(id) : id \in tv.enemy_firing_history}]

\* TeamView.from_dict that restores no firing history
team_view_from_dict_blank(data) == TeamView(data.team)

\* TeamView.from_dict: a new view of the team with the firing history restored
team_view_from_dict(data) ==
    [TeamView(data.team) EXCEPT
        !.enemy_firing_history = {int(key) : key \in data.enemy_firing_history}]

\* Entity.to_dict with the additions of the subclasses
entity_to_dict(e) ==
    CASE e.kind = "sam" ->
            [on |-> e.on, id |-> e.id, kind |-> e.kind, team |-> e.team, pos |-> e.pos,
             radar_range |-> e.radar_range, alive |-> e.alive, missiles |-> e.missiles,
             missile_max_range |-> e.missile_max_range, base_hit_prob |-> e.base_hit_prob,
             min_hit_prob |-> e.min_hit_prob, cooldown_steps |-> e.cooldown_steps,
             cooldown |-> e.cooldown]
      [] e.kind = "aircraft" ->
            [id |-> e.id, kind |-> e.kind, team |-> e.team, pos |-> e.pos,
             radar_range |-> e.radar_range, alive |-> e.alive, missiles |-> e.missiles,
             missile_max_range |-> e.missile_max_range, base_hit_prob |-> e.base_hit_prob,
             min_hit_prob |-> e.min_hit_prob]
      [] OTHER ->
            [id |-> e.id, kind |-> e.kind, team |-> e.team, pos |-> e.pos,
             radar_range |-> e.radar_range, alive |-> e.alive]

\* Entity.from_dict: the subclass's _from_dict_impl constructs a new entity, which takes
\* the next id of the generator, then the id and the alive flag are restored
entity_from_dict(data, next_id) ==
    LET built ==
            CASE data.kind = "awacs" ->
                    AWACS(next_id, data.team, data.pos, data.radar_range)
              [] data.kind = "decoy" -> Decoy(next_id, data.team, data.pos)
              [] data.kind = "sam" ->
                    [SAM(next_id, data.team, data.pos, data.radar_range, data.missiles,
                         data.missile_max_range, data.base_hit_prob, data.min_hit_prob,
                         data.cooldown_steps, data.on) EXCEPT !.cooldown = data.cooldown]
              [] OTHER ->
                    Aircraft(next_id, data.team, data.pos, data.radar_range, data.missiles,
                             data.missile_max_range, data.base_hit_prob, data.min_hit_prob)
    IN [built EXCEPT !.id = data.id, !.alive = data.alive]

\* WorldState.to_dict: everything but the pending kills and the observations
to_dict(w) ==
    [grid |-> w.grid,
     entities |-> [i \in DOMAIN w.entities |-> entity_to_dict(w.entities[i])],
     team_views |-> [BLUE |-> team_view_to_dict(w.team_views["BLUE"]),
                    RED |-> team_view_to_dict(w.team_views["RED"])],
     turn |-> w.turn, game_over |-> w.game_over, winner |-> w.winner,
     game_over_reason |-> w.game_over_reason,
     turns_without_shooting |-> w.turns_without_shooting,
     turns_without_movement |-> w.turns_without_movement,
     rng_state |-> w.rng]

\* WorldState.from_dict: an empty unseeded world, then the fields, the generator
\* state, the entities (appended without validation) and the team views are restored;
\* the observations are left to a later refresh
from_dict(data, entropy) ==
    [WorldState(data.grid.width, data.grid.height, NoSeed, entropy) EXCEPT
        !.turn = data.turn, !.game_over = data.game_over, !.winner = data.winner,
        !.game_over_reason = data.game_over_reason,
        !.turns_without_shooting = data.turns_without_shooting,
        !.turns_without_movement = data.turns_without_movement,
        !.rng = data.rng_state,
        !.entities = [i \in DOMAIN data.entities |->
                         entity_from_dict(data.entities[i], Len(data.entities) + i)],
        !.team_views = [BLUE |-> team_view_from_dict(data.team_views["BLUE"]),
                        RED |-> team_view_from_dict(data.team_views["RED"])]]

\* WorldState.clone
clone(w, entropy) == from_dict(to_dict(w), entropy)

(***************************************************************************)
(* entities/base.py : Entity.validate_action, the entity-level checks      *)
(* (alive, capability, ammunition, parameter shape), with the SAM          *)
(* override of _validate_shoot from entities/sam.py.                       *)
(***************************************************************************)
\* _validate_move that does not ask whether the entity can move
validate_move_of_any_kind(e, action) ==
    IF action.dir \notin MoveDir THEN ValidationFail("INVALID_DIRECTION")
    ELSE ValidationSuccess

\* Entity._validate_move
validate_move(e, action) ==
    IF ~e.can_move THEN ValidationFail("NO_CAPABILITY")
    ELSE IF action.dir \notin MoveDir THEN ValidationFail("INVALID_DIRECTION")
    ELSE ValidationSuccess

\* _validate_shoot that does not ask for ammunition
base_validate_shoot_unloaded(e, action) ==
    IF ~e.can_shoot THEN ValidationFail("NO_CAPABILITY") ELSE ValidationSuccess

\* Entity._validate_shoot (alive is checked by validate_action)
base_validate_shoot(e, action) ==
    IF ~e.can_shoot THEN ValidationFail("NO_CAPABILITY")
    ELSE IF e.missiles <= 0 THEN ValidationFail("NO_MISSILES")
    ELSE ValidationSuccess

\* SAM._validate_shoot
sam_validate_shoot(e, action) ==
    LET base_validation == base_validate_shoot(e, action)
    IN IF ~base_validation.valid THEN base_validation
       ELSE IF ~e.on THEN ValidationFail("RADAR_OFF")
       ELSE IF e.cooldown > 0 THEN ValidationFail("COOLING_DOWN")
       ELSE ValidationSuccess

\* Entity._validate_toggle
validate_toggle(e, action) ==
    IF e.kind # "sam" THEN ValidationFail("NOT_SAM") ELSE ValidationSuccess

\* Entity.validate_action
validate_action(e, action) ==
    IF ~e.alive THEN ValidationFail("ENTITY_DEAD")
    ELSE CASE action.type = "MOVE" -> validate_move(e, action)
           [] action.type = "SHOOT" ->
                IF e.kind = "sam" THEN sam_validate_shoot(e, action)
                ELSE base_validate_shoot(e, action)
           [] action.type = "TOGGLE" -> validate_toggle(e, action)
           [] OTHER -> ValidationSuccess

(***************************************************************************)
(* core/validation.py                                                      *)
(***************************************************************************)
validate_action_in_world(w, e, action) ==
    LET base_validation == validate_action(e, action)
    IN IF ~base_validation.valid THEN base_validation
       ELSE IF action.type = "MOVE" THEN
            LET new_pos == <<e.pos[1] + delta(action.dir)[1], e.pos[2] + delta(action.dir)[2]>>
            IN IF ~in_bounds(w.grid, new_pos) THEN ValidationFail("OUT_OF_BOUNDS")
               ELSE ValidationSuccess
       ELSE IF action.type = "SHOOT" THEN
            IF ~HasEntity(w, action.target_id) \/ ~get_entity(w, action.target_id).alive
            THEN ValidationFail("INVALID_TARGET")
            ELSE IF ~can_target(w.team_views[e.team], action.target_id)
            THEN ValidationFail("NOT_VISIBLE")
            ELSE IF e.missile_max_range <= 0 THEN ValidationFail("NO_CAPABILITY")
            ELSE IF distance2(e.pos, get_entity(w, action.target_id).pos)
                        > e.missile_max_range * e.missile_max_range
            THEN ValidationFail("OUT_OF_RANGE")
            ELSE ValidationSuccess
       ELSE base_validation

(***************************************************************************)
(* entities/sam.py : SAM.get_allowed_actions                               *)
(***************************************************************************)
sam_get_allowed_actions(w, e) ==
    IF ~e.alive THEN {}
    ELSE {a \in {ActionWait, ActionToggle(~e.on)} : validate_action_in_world(w, e, a).valid}
            \cup (IF e.on /\ e.cooldown = 0 /\ e.missiles > 0
                  THEN {ActionShoot(t) : t \in
                            {id \in w.team_views[e.team].visible_enemy_ids :
                                /\ HasEntity(w, id) /\ get_entity(w, id).alive
                                /\ validate_action_in_world(w, e, ActionShoot(id)).valid}}
                  ELSE {})

(***************************************************************************)
(* entities/awacs.py, entities/decoy.py : get_allowed_actions              *)
(***************************************************************************)
\* get_allowed_actions that offers a move only into a cell nobody stands on
awacs_get_allowed_actions_into_free(w, e) ==
    IF ~e.alive THEN {}
    ELSE {a \in {ActionWait} : validate_action_in_world(w, e, a).valid}
            \cup (IF e.can_move
                  THEN {a \in {ActionMove(d) : d \in MoveDir} :
                            /\ validate_action_in_world(w, e, a).valid
                            /\ ~is_position_occupied(w,
                                    <<e.pos[1] + delta(a.dir)[1], e.pos[2] + delta(a.dir)[2]>>)}
                  ELSE {})

\* AWACS.get_allowed_actions
awacs_get_allowed_actions(w, e) ==
    IF ~e.alive THEN {}
    ELSE {a \in {ActionWait} : validate_action_in_world(w, e, a).valid}
            \cup (IF e.can_move
                  THEN {a \in {ActionMove(d) : d \in MoveDir} :
                            validate_action_in_world(w, e, a).valid}
                  ELSE {})

\* Decoy.get_allowed_actions
decoy_get_allowed_actions(w, e) ==
    IF ~e.alive THEN {}
    ELSE {ActionWait}
            \cup (IF e.can_move
                  THEN {ActionMove(d) : d \in
                            {dir \in MoveDir :
                                in_bounds(w.grid, <<e.pos[1] + delta(dir)[1],
                                                    e.pos[2] + delta(dir)[2]>>)}}
                  ELSE {})

(***************************************************************************)
(* mechanics/movement.py : MovementResolver                                *)
(***************************************************************************)
\* Random.shuffle (Fisher-Yates from the last index down), on world.rng
RECURSIVE shuffle_from(_, _, _)
shuffle_from(rng, x, i) ==
    IF i < 2 THEN [rng |-> rng, list |-> x]
    ELSE LET j == RngBelow(rng, i) + 1
             swapped == [x EXCEPT ![i] = x[j], ![j] = x[i]]
         IN shuffle_from(RngNext(rng), swapped, i - 1)

shuffle(rng, x) == shuffle_from(rng, x, Len(x))

\* resolve_single without the collision check
resolve_single_unchecked(w, e, action) ==
    LET old_pos == e.pos
        validation == validate_action(e, action)
        new_pos == <<old_pos[1] + delta(action.dir)[1], old_pos[2] + delta(action.dir)[2]>>
    IN IF ~validation.valid
       THEN [world |-> w,
             result |-> [code |-> validation.error_code, dir |-> action.dir, entity_id |-> e.id,
                         new_pos |-> old_pos, old_pos |-> old_pos,
                         success |-> FALSE]]
       ELSE [world |-> SetEntity(w, [e EXCEPT !.pos = new_pos]),
             result |-> [code |-> "NONE", dir |-> action.dir, entity_id |-> e.id,
                         new_pos |-> new_pos, old_pos |-> old_pos, success |-> TRUE]]

\* resolve_single that fails a rejected move only after having displaced the entity
resolve_single_displacing(w, e, action) ==
    LET old_pos == e.pos
        validation == validate_action(e, action)
        new_pos == <<old_pos[1] + delta(action.dir)[1], old_pos[2] + delta(action.dir)[2]>>
        failed(code) ==
            [world |-> SetEntity(w, [e EXCEPT !.pos = new_pos]),
             result |-> [code |-> code, dir |-> action.dir, entity_id |-> e.id,
                         new_pos |-> old_pos, old_pos |-> old_pos, success |-> FALSE]]
    IN IF ~validation.valid THEN failed(validation.error_code)
       ELSE IF is_position_occupied(w, new_pos) THEN failed("BLOCKED")
       ELSE [world |-> SetEntity(w, [e EXCEPT !.pos = new_pos]),
             result |-> [code |-> "NONE", dir |-> action.dir, entity_id |-> e.id,
                         new_pos |-> new_pos, old_pos |-> old_pos, success |-> TRUE]]

\* MovementResolver.resolve_single
resolve_single(w, e, action) ==
    LET old_pos == e.pos
        validation == validate_action(e, action)
        new_pos == <<old_pos[1] + delta(action.dir)[1], old_pos[2] + delta(action.dir)[2]>>
        failed(code) ==
            [world |-> w,
             result |-> [code |-> code, dir |-> action.dir, entity_id |-> e.id,
                         new_pos |-> old_pos, old_pos |-> old_pos, success |-> FALSE]]
    IN IF ~validation.valid THEN failed(validation.error_code)
       ELSE IF is_position_occupied(w, new_pos) THEN failed("BLOCKED")
       ELSE [world |-> SetEntity(w, [e EXCEPT !.pos = new_pos]),
             result |-> [code |-> "NONE", dir |-> action.dir, entity_id |-> e.id,
                         new_pos |-> new_pos, old_pos |-> old_pos, success |-> TRUE]]

\* the loop of resolve_all with every move resolved against the world as it was when
\* the phase began
RECURSIVE resolve_moves_stale(_, _, _, _)
resolve_moves_stale(w, moving_ids, actions, results) ==
    IF moving_ids = << >> THEN [world |-> w, results |-> results]
    ELSE LET r == resolve_single(w, get_entity(w, Head(moving_ids)), actions[Head(moving_ids)])
             rest == resolve_moves_stale(w, Tail(moving_ids), actions, Append(results, r.result))
         IN [world |-> SetEntity(rest.world, get_entity(r.world, Head(moving_ids))),
             results |-> rest.results]

\* the "for entity in moving_entities" loop of resolve_all
RECURSIVE resolve_moves(_, _, _, _)
resolve_moves(w, moving_ids, actions, results) ==
    IF moving_ids = << >> THEN [world |-> w, results |-> results]
    ELSE LET r == resolve_single(w, get_entity(w, Head(moving_ids)), actions[Head(moving_ids)])
         IN resolve_moves(r.world, Tail(moving_ids), actions, Append(results, r.result))

\* ids of a sequence of entities
IdsOf(es) == [i \in DOMAIN es |-> es[i].id]

\* resolve_all that resolves the moves in the order of the entity list
resolve_all_in_id_order(w, actions) ==
    LET moving_entities ==
            SelectSeq(get_alive_entities(w),
                      LAMBDA e : ActionsGet(actions, e.id).type = "MOVE")
    IN resolve_moves(w, IdsOf(moving_entities), actions, << >>)

\* MovementResolver.resolve_all (randomize_order = True)
resolve_all(w, actions) ==
    LET moving_entities ==
            SelectSeq(get_alive_entities(w),
                      LAMBDA e : ActionsGet(actions, e.id).type = "MOVE")
        shuffled == shuffle(w.rng, IdsOf(moving_entities))
    IN resolve_moves([w EXCEPT !.rng = shuffled.rng], shuffled.list, actions, << >>)

\* MovementResolver._resolve_toggle
resolve_toggle(e, action) ==
    IF e.kind # "sam" THEN e ELSE [e EXCEPT !.on = action.on]

\* resolve_toggles that goes over all entities, not only the alive ones
resolve_toggles_of_dead(w, actions) ==
    [w EXCEPT !.entities =
        [i \in DOMAIN @ |->
            IF ActionsGet(actions, @[i].id).type = "TOGGLE"
            THEN resolve_toggle(@[i], actions[@[i].id])
            ELSE @[i]]]

\* MovementResolver.resolve_toggles
resolve_toggles(w, actions) ==
    [w EXCEPT !.entities =
        [i \in DOMAIN @ |->
            IF @[i].alive /\ ActionsGet(actions, @[i].id).type = "TOGGLE"
            THEN resolve_toggle(@[i], actions[@[i].id])
            ELSE @[i]]]

\* has_movement_occurred that takes an attempt for a movement
has_movement_attempted(results) == results # << >>

\* MovementResolver.has_movement_occurred
has_movement_occurred(results) == \E i \in DOMAIN results : results[i].success

\* MovementResolver.resolve_actions
resolve_actions(w, actions) ==
    LET moved == resolve_all(w, actions)
        toggled == resolve_toggles(moved.world, actions)
        movement_occurred == has_movement_occurred(moved.results)
    IN [world |-> [toggled EXCEPT !.turns_without_movement =
                        IF movement_occurred THEN 0 ELSE @ + 1],
        movement_occurred |-> movement_occurred,
        movement_results |-> moved.results]

(***************************************************************************)
(* mechanics/sensors.py : SensorSystem                                     *)
(***************************************************************************)
\* does the radar of observer e detect other?
detects(e, other) ==
    /\ e.alive /\ get_active_radar_range(e) > 0
    /\ other.alive /\ other.id # e.id
    /\ ~(other.kind = "sam" /\ ~other.on)
    /\ distance2(e.pos, other.pos) <= get_active_radar_range(e) * get_active_radar_range(e)

\* the entities of a team that observe other: its detecting radars, and other itself
\* (at distance 0) when it belongs to the team
observers(w, team, other) ==
    {w.entities[i].id : i \in {j \in EntityIndexes(w) :
        /\ w.entities[j].team = team
        /\ \/ detects(w.entities[j], other)
           \/ (w.entities[j].id = other.id /\ other.alive)}}

\* observation_of that reports every entity as what it is
observation_of_unmasked(w, team, other) ==
    Observation(other.id, other.kind, other.team, other.pos, observers(w, team, other))

\* the Observation a team gets of other; an enemy decoy is reported as an aircraft
observation_of(w, team, other) ==
    Observation(other.id,
                IF other.kind = "decoy" /\ other.team # team THEN "aircraft" ELSE other.kind,
                other.team, other.pos, observers(w, team, other))

\* one team's view: its alive roster registered, one observation per observed entity
RECURSIVE ingest(_, _, _)
ingest(tv, w, k) ==
    IF k > Len(w.entities) THEN tv
    ELSE LET other == w.entities[k]
             registered == IF other.alive /\ other.team = tv.team
                           THEN add_friendly_id(tv, other.id) ELSE tv
         IN ingest(IF observers(w, tv.team, other) = {} THEN registered
                   ELSE add_observation(registered, observation_of(w, tv.team, other)),
                   w, k + 1)

\* SensorSystem.refresh_all_observations: both team views are reset and refilled
refresh_all_observations(w) ==
    [w EXCEPT !.team_views = [BLUE |-> ingest(TeamViewReset(@["BLUE"]), w, 1),
                              RED |-> ingest(TeamViewReset(@["RED"]), w, 1)]]

(***************************************************************************)
(* mechanics/combat.py : CombatResolver                                    *)
(***************************************************************************)
\* clamp(v, lo, hi)
clamp(v, lo, hi) == IF v < lo THEN lo ELSE IF v > hi THEN hi ELSE v

\* integer maximum
max2(a, b) == IF a >= b THEN a ELSE b

\* hit_probability(distance, max_range, base, min_p) in percent; the distance comes times 100
hit_probability(dist100, max_range, base, min_p) ==
    IF max_range <= 0 THEN 0
    ELSE max2(min_p, (base * clamp(100 - (dist100 \div max_range), 0, 100)) \div 100)

\* start_cooldown that leaves the counter alone
start_cooldown_skipped(e) == e

\* SAM.start_cooldown
start_cooldown(e) == [e EXCEPT !.cooldown = e.cooldown_steps]

\* SAM.tick_cooldown
tick_cooldown(e) == IF e.cooldown > 0 THEN [e EXCEPT !.cooldown = @ - 1] ELSE e

\* CombatResolver.resolve_single: one SHOOT of one alive entity
resolve_shot(w, e, action) ==
    LET validation == validate_action_in_world(w, e, action)
        target == get_entity(w, action.target_id)
        p == hit_probability(distance100(e.pos, target.pos), e.missile_max_range,
                             e.base_hit_prob, e.min_hit_prob)
        hit == RngRandom100(w.rng) <= p
        fired == IF e.kind = "sam" THEN start_cooldown([e EXCEPT !.missiles = @ - 1])
                 ELSE [e EXCEPT !.missiles = @ - 1]
        w1 == [SetEntity(w, fired) EXCEPT
                  !.rng = RngNext(@),
                  !.team_views[target.team] = record_enemy_fired(@, e.id)]
    IN IF ~validation.valid
       THEN [world |-> w,
             result |-> [code |-> validation.error_code, target_id |-> action.target_id,
                         success |-> FALSE, hit |-> FALSE, attacker_id |-> e.id]]
       ELSE [world |-> IF hit THEN mark_for_kill(w1, target.id) ELSE w1,
             result |-> [code |-> "NONE", target_id |-> action.target_id,
                         success |-> TRUE, hit |-> hit, attacker_id |-> e.id]]

\* the loop over the entities that were alive at the start of the phase
RECURSIVE resolve_shots(_, _, _, _)
resolve_shots(w, shooter_ids, actions, results) ==
    IF shooter_ids = << >> THEN [world |-> w, results |-> results]
    ELSE LET r == resolve_shot(w, get_entity(w, Head(shooter_ids)), actions[Head(shooter_ids)])
         IN resolve_shots(r.world, Tail(shooter_ids), actions, Append(results, r.result))

\* the deferred kills, taking every marked entity out of the entity list
apply_pending_kills_removing(w) ==
    clear_pending_kills(
        [w EXCEPT !.entities = SelectSeq(@, LAMBDA e : e.id \notin get_pending_kills(w))])

\* the deferred kills: every marked entity dies, then the set is cleared
apply_pending_kills(w) ==
    clear_pending_kills(
        [w EXCEPT !.entities =
            [i \in DOMAIN @ |->
                IF @[i].id \in get_pending_kills(w) THEN [@[i] EXCEPT !.alive = FALSE]
                ELSE @[i]]])

\* resolve_combat that resets the counter only when a shot hit
resolve_combat_hits_only(w, actions) ==
    LET shooters == SelectSeq(get_alive_entities(w),
                              LAMBDA e : ActionsGet(actions, e.id).type = "SHOOT")
        shot == resolve_shots(w, IdsOf(shooters), actions, << >>)
        shooting_occurred == \E i \in DOMAIN shot.results : shot.results[i].hit
    IN [world |-> [apply_pending_kills(shot.world) EXCEPT !.turns_without_shooting =
                        IF shooting_occurred THEN 0 ELSE @ + 1],
        combat_results |-> shot.results]

\* CombatResolver.resolve_combat
resolve_combat(w, actions) ==
    LET shooters == SelectSeq(get_alive_entities(w),
                              LAMBDA e : ActionsGet(actions, e.id).type = "SHOOT")
        shot == resolve_shots(w, IdsOf(shooters), actions, << >>)
        shooting_occurred == \E i \in DOMAIN shot.results : shot.results[i].success
    IN [world |-> [apply_pending_kills(shot.world) EXCEPT !.turns_without_shooting =
                        IF shooting_occurred THEN 0 ELSE @ + 1],
        combat_results |-> shot.results]

(***************************************************************************)
(* mechanics/victory.py : VictoryConditions                                *)
(***************************************************************************)
VictoryResult(result, reason, winner) == [winner |-> winner, result |-> result, reason |-> reason]

\* VictoryResult.is_game_over
is_game_over(r) == r.result # "IN_PROGRESS"

\* any(e.kind == AWACS and e.team == team [and e.alive] for e in world.get_all_entities())
awacs_exists(w, team) ==
    \E i \in EntityIndexes(w) : w.entities[i].kind = "awacs" /\ w.entities[i].team = team

awacs_alive(w, team) ==
    \E i \in EntityIndexes(w) :
        w.entities[i].kind = "awacs" /\ w.entities[i].team = team /\ w.entities[i].alive

\* check_awacs_destruction that takes a side without any AWACS for a side that lost it
check_awacs_destruction_unskipped(w) ==
    IF ~awacs_alive(w, "BLUE") /\ ~awacs_alive(w, "RED")
    THEN VictoryResult("DRAW", "Both AWACS destroyed - DRAW", "NONE")
    ELSE IF ~awacs_alive(w, "BLUE")
    THEN VictoryResult("RED_WINS", "BLUE AWACS destroyed - RED WINS", "RED")
    ELSE IF ~awacs_alive(w, "RED")
    THEN VictoryResult("BLUE_WINS", "RED AWACS destroyed - BLUE WINS", "BLUE")
    ELSE VictoryResult("IN_PROGRESS", "Both AWACS alive", "NONE")

\* check_awacs_destruction that looks at each side on its own before looking at both
check_awacs_destruction_one_side_first(w) ==
    IF ~awacs_exists(w, "BLUE") /\ ~awacs_exists(w, "RED")
    THEN VictoryResult("IN_PROGRESS", "No AWACS in scenario", "NONE")
    ELSE IF awacs_exists(w, "BLUE") /\ ~awacs_alive(w, "BLUE")
    THEN VictoryResult("RED_WINS", "BLUE AWACS destroyed - RED WINS", "RED")
    ELSE IF awacs_exists(w, "RED") /\ ~awacs_alive(w, "RED")
    THEN VictoryResult("BLUE_WINS", "RED AWACS destroyed - BLUE WINS", "BLUE")
    ELSE IF /\ awacs_exists(w, "BLUE") /\ awacs_exists(w, "RED")
            /\ ~awacs_alive(w, "BLUE") /\ ~awacs_alive(w, "RED")
    THEN VictoryResult("DRAW", "Both AWACS destroyed - DRAW", "NONE")
    ELSE VictoryResult("IN_PROGRESS", "Both AWACS alive", "NONE")

\* VictoryConditions.check_awacs_destruction
check_awacs_destruction(w) ==
    IF ~awacs_exists(w, "BLUE") /\ ~awacs_exists(w, "RED")
    THEN VictoryResult("IN_PROGRESS", "No AWACS in scenario", "NONE")
    ELSE IF /\ awacs_exists(w, "BLUE") /\ awacs_exists(w, "RED")
            /\ ~awacs_alive(w, "BLUE") /\ ~awacs_alive(w, "RED")
    THEN VictoryResult("DRAW", "Both AWACS destroyed - DRAW", "NONE")
    ELSE IF awacs_exists(w, "BLUE") /\ ~awacs_alive(w, "BLUE")
    THEN VictoryResult("RED_WINS", "BLUE AWACS destroyed - RED WINS", "RED")
    ELSE IF awacs_exists(w, "RED") /\ ~awacs_alive(w, "RED")
    THEN VictoryResult("BLUE_WINS", "RED AWACS destroyed - BLUE WINS", "BLUE")
    ELSE VictoryResult("IN_PROGRESS", "Both AWACS alive", "NONE")

\* check_all_enemies_destroyed without the both-sides-empty case
check_all_enemies_destroyed_no_draw(w) ==
    LET blue_alive == get_team_entities(w, "BLUE", TRUE)
        red_alive == get_team_entities(w, "RED", TRUE)
    IN IF Len(blue_alive) = 0
       THEN VictoryResult("RED_WINS", "All BLUE entities destroyed - RED WINS", "RED")
       ELSE IF Len(red_alive) = 0
       THEN VictoryResult("BLUE_WINS", "All RED entities destroyed - BLUE WINS", "BLUE")
       ELSE VictoryResult("IN_PROGRESS", "Both teams have surviving entities", "NONE")

\* VictoryConditions.check_all_enemies_destroyed
check_all_enemies_destroyed(w) ==
    LET blue_alive == get_team_entities(w, "BLUE", TRUE)
        red_alive == get_team_entities(w, "RED", TRUE)
    IN IF Len(blue_alive) = 0 /\ Len(red_alive) = 0
       THEN VictoryResult("DRAW", "All entities destroyed - DRAW", "NONE")
       ELSE IF Len(blue_alive) = 0
       THEN VictoryResult("RED_WINS", "All BLUE entities destroyed - RED WINS", "RED")
       ELSE IF Len(red_alive) = 0
       THEN VictoryResult("BLUE_WINS", "All RED entities destroyed - BLUE WINS", "BLUE")
       ELSE VictoryResult("IN_PROGRESS", "Both teams have surviving entities", "NONE")

\* sum of entity.missiles over the alive entities that have the attribute
RECURSIVE sum_missiles(_, _)
sum_missiles(es, k) ==
    IF k > Len(es) THEN 0
    ELSE (IF es[k].alive /\ es[k].has_missiles THEN es[k].missiles ELSE 0)
            + sum_missiles(es, k + 1)

\* check_missile_exhaustion that counts the missiles of the dead as well
check_missile_exhaustion_counting_dead(w) ==
    IF \A i \in EntityIndexes(w) : w.entities[i].has_missiles => w.entities[i].missiles = 0
    THEN VictoryResult("DRAW", "No missiles remaining - DRAW", "NONE")
    ELSE VictoryResult("IN_PROGRESS", "missiles remaining", "NONE")

\* VictoryConditions.check_missile_exhaustion
check_missile_exhaustion(w) ==
    IF sum_missiles(w.entities, 1) = 0
    THEN VictoryResult("DRAW", "No missiles remaining - DRAW", "NONE")
    ELSE VictoryResult("IN_PROGRESS", "missiles remaining", "NONE")

\* check_turn_limit that lets the turn counter pass the cap
check_turn_limit_late(cfg, current_turn) ==
    IF cfg.max_turns # -1 /\ current_turn > cfg.max_turns
    THEN VictoryResult("DRAW", "Turn limit reached - DRAW", "NONE")
    ELSE VictoryResult("IN_PROGRESS", "Turn limit not reached", "NONE")

\* VictoryConditions.check_turn_limit; max_turns = -1 stands for None
check_turn_limit(cfg, current_turn) ==
    IF cfg.max_turns # -1 /\ current_turn >= cfg.max_turns
    THEN VictoryResult("DRAW", "Turn limit reached - DRAW", "NONE")
    ELSE VictoryResult("IN_PROGRESS", "Turn limit not reached", "NONE")

\* VictoryConditions.check_combat_stalemate
check_combat_stalemate(cfg, turns_without_shooting) ==
    IF turns_without_shooting >= cfg.max_stalemate_turns
    THEN VictoryResult("DRAW", "Stalemate - No missiles fired - DRAW", "NONE")
    ELSE VictoryResult("IN_PROGRESS", "Combat active", "NONE")

\* check_movement_stagnation that needs the counter to pass the threshold
check_movement_stagnation_late(cfg, turns_without_movement) ==
    IF turns_without_movement > cfg.max_no_move_turns
    THEN VictoryResult("DRAW", "Stagnation - No movement - DRAW", "NONE")
    ELSE VictoryResult("IN_PROGRESS", "Movement active", "NONE")

\* VictoryConditions.check_movement_stagnation
check_movement_stagnation(cfg, turns_without_movement) ==
    IF turns_without_movement >= cfg.max_no_move_turns
    THEN VictoryResult("DRAW", "Stagnation - No movement - DRAW", "NONE")
    ELSE VictoryResult("IN_PROGRESS", "Movement active", "NONE")

\* check_all with the two no-activity checks moved to the front
check_all_stalemate_first(cfg, w) ==
    IF is_game_over(check_combat_stalemate(cfg, w.turns_without_shooting))
    THEN check_combat_stalemate(cfg, w.turns_without_shooting)
    ELSE IF is_game_over(check_movement_stagnation(cfg, w.turns_without_movement))
    THEN check_movement_stagnation(cfg, w.turns_without_movement)
    ELSE IF is_game_over(check_awacs_destruction(w)) THEN check_awacs_destruction(w)
    ELSE IF is_game_over(check_all_enemies_destroyed(w)) THEN check_all_enemies_destroyed(w)
    ELSE IF cfg.check_missile_exhaustion /\ is_game_over(check_missile_exhaustion(w))
    THEN check_missile_exhaustion(w)
    ELSE IF is_game_over(check_turn_limit(cfg, w.turn)) THEN check_turn_limit(cfg, w.turn)
    ELSE VictoryResult("IN_PROGRESS", "Game ongoing", "NONE")

\* VictoryConditions.check_all
check_all(cfg, w) ==
    IF is_game_over(check_awacs_destruction(w)) THEN check_awacs_destruction(w)
    ELSE IF is_game_over(check_all_enemies_destroyed(w)) THEN check_all_enemies_destroyed(w)
    ELSE IF cfg.check_missile_exhaustion /\ is_game_over(check_missile_exhaustion(w))
    THEN check_missile_exhaustion(w)
    ELSE IF is_game_over(check_turn_limit(cfg, w.turn)) THEN check_turn_limit(cfg, w.turn)
    ELSE IF is_game_over(check_combat_stalemate(cfg, w.turns_without_shooting))
    THEN check_combat_stalemate(cfg, w.turns_without_shooting)
    ELSE IF is_game_over(check_movement_stagnation(cfg, w.turns_without_movement))
    THEN check_movement_stagnation(cfg, w.turns_without_movement)
    ELSE VictoryResult("IN_PROGRESS", "Game ongoing", "NONE")

(***************************************************************************)
(* environment.py : GridCombatEnv                                          *)
(***************************************************************************)
\* _housekeeping that counts a turn of its own
housekeeping_counting(w) ==
    [w EXCEPT !.turn = @ + 1,
              !.entities =
        [i \in DOMAIN @ |->
            IF @[i].alive /\ @[i].kind = "sam" THEN tick_cooldown(@[i]) ELSE @[i]]]

\* GridCombatEnv._housekeeping
housekeeping(w) ==
    [w EXCEPT !.entities =
        [i \in DOMAIN @ |->
            IF @[i].alive /\ @[i].kind = "sam" THEN tick_cooldown(@[i]) ELSE @[i]]]

\* the two "for entity in scenario.get(...): add_entity" loops of reset; the first
\* ValueError stops them
RECURSIVE add_entities(_, _)
add_entities(w, es) ==
    IF es = << >> THEN [world |-> w, ok |-> TRUE]
    ELSE LET r == add_entity(w, Head(es))
         IN IF r.ok THEN add_entities(r.world, Tail(es)) ELSE r

\* GridCombatEnv.reset, up to the point where it returns or raises
env_reset(scenario, entropy) ==
    LET w0 == WorldState(scenario.config.grid_width, scenario.config.grid_height,
                         scenario.config.seed, entropy)
        added == add_entities(w0, scenario.blue_entities \o scenario.red_entities)
    IN [world |-> IF added.ok THEN refresh_all_observations(added.world) ELSE added.world,
        ok |-> added.ok]

\* GridCombatEnv.step: the worlds after each phase and the value returned
env_step(cfg, w, actions) ==
    LET ticked == housekeeping([w EXCEPT !.turn = @ + 1])
        action_results == resolve_actions(ticked, actions)
        combat == resolve_combat(action_results.world, actions)
        sensed == refresh_all_observations(combat.world)
        victory_result == check_all(cfg, sensed)
    IN [world |-> IF is_game_over(victory_result)
                  THEN [sensed EXCEPT !.game_over = TRUE,
                                      !.winner = victory_result.winner,
                                      !.game_over_reason = victory_result.reason]
                  ELSE sensed,
        movement_results |-> action_results.movement_results,
        combat_results |-> combat.combat_results,
        victory_result |-> victory_result,
        after_movement |-> action_results.world,
        done |-> is_game_over(victory_result)]

(***************************************************************************)
(* Scenarios handed to reset(): config plus the two entity lists.  Entity  *)
(* ids are the ones the id generator gave when the entities were built.    *)
(***************************************************************************)
ScenarioConfig(width, height, stalemate, no_move, max_turns, exhaustion, seed) ==
    [seed |-> seed, check_missile_exhaustion |-> exhaustion,
     max_turns |-> max_turns, max_stalemate_turns |-> stalemate,
     max_no_move_turns |-> no_move, grid_width |-> width, grid_height |-> height]

\* both sides have an AWACS and an aircraft, everything in radar and missile range
ScenarioAwacs ==
    [config |-> ScenarioConfig(3, 2, 2, 2, -1, TRUE, 0),
     blue_entities |-> << AWACS(1, "BLUE", <<0, 1>>, 2),
                          Aircraft(2, "BLUE", <<0, 0>>, 2, 1, 2, 100, 100) >>,
     red_entities |-> << AWACS(3, "RED", <<2, 0>>, 2),
                         Aircraft(4, "RED", <<2, 1>>, 2, 2, 2, 80, 20) >>]

\* only one side has an AWACS; one aircraft each, everything in range
ScenarioHalfAwacs(team) ==
    [config |-> ScenarioConfig(2, 2, 2, 2, -1, FALSE, 0),
     blue_entities |-> IF team = "BLUE"
                       THEN << AWACS(1, "BLUE", <<0, 1>>, 2),
                               Aircraft(2, "BLUE", <<0, 0>>, 2, 1, 2, 100, 100) >>
                       ELSE << Aircraft(1, "BLUE", <<0, 0>>, 2, 1, 2, 100, 100) >>,
     red_entities |-> IF team = "RED"
                      THEN << AWACS(2, "RED", <<1, 1>>, 2),
                              Aircraft(3, "RED", <<1, 0>>, 2, 1, 2, 100, 100) >>
                      ELSE << Aircraft(3, "RED", <<1, 0>>, 2, 1, 2, 100, 100) >>]

\* two aircraft out of each other's radar range but within missile range
ScenarioDuel(seed) ==
    [config |-> ScenarioConfig(3, 2, 1, 1, -1, TRUE, seed),
     blue_entities |-> << Aircraft(1, "BLUE", <<0, 0>>, 1, 1, 2, 100, 100) >>,
     red_entities |-> << Aircraft(2, "RED", <<2, 0>>, 1, 2, 2, 80, 20) >>]

\* an aircraft next to a radar site that starts switched off
ScenarioSam ==
    [config |-> ScenarioConfig(2, 2, 2, 2, 2, TRUE, 1),
     blue_entities |-> << Aircraft(1, "BLUE", <<0, 0>>, 1, 1, 1, 100, 100) >>,
     red_entities |-> << SAM(2, "RED", <<1, 0>>, 1, 2, 1, 100, 100, 1, FALSE) >>]

\* a scenario reset() rejects: the second entity is placed on the first one's cell
ScenarioInvalid ==
    [config |-> ScenarioConfig(2, 1, 2, 2, -1, FALSE, 0),
     blue_entities |-> << Decoy(1, "BLUE", <<0, 0>>) >>,
     red_entities |-> << Decoy(2, "RED", <<0, 0>>) >>]

\* a scenario reset() rejects: the second entity is placed outside the grid
ScenarioOutside ==
    [config |-> ScenarioConfig(2, 1, 1, 1, -1, FALSE, 0),
     blue_entities |-> << Decoy(1, "BLUE", <<0, 0>>) >>,
     red_entities |-> << Decoy(2, "RED", <<2, 0>>) >>]

\* one aircraft with a single missile against an armed aircraft and a decoy, all in
\* radar and missile range; the turn cap comes before the two no-activity thresholds
ScenarioExhaustion(exhaustion) ==
    [config |-> ScenarioConfig(3, 1, 2, 2, IF exhaustion THEN -1 ELSE 1, exhaustion, 0),
     blue_entities |-> << Aircraft(1, "BLUE", <<0, 0>>, 2, 1, 2, 100, 100) >>,
     red_entities |-> << Aircraft(2, "RED", <<1, 0>>, 2, 1, 2, 100, 100),
                         Decoy(3, "RED", <<2, 0>>) >>]

\* a radar site that starts switched on, next to an aircraft it sees; its shots hit
\* with probability one half and it has to cool down for two turns
ScenarioBattery(seed) ==
    [config |-> ScenarioConfig(2, 2, 5, 5, -1, FALSE, seed),
     blue_entities |-> << Aircraft(1, "BLUE", <<0, 0>>, 1, 1, 1, 100, 100) >>,
     red_entities |-> << SAM(2, "RED", <<1, 0>>, 1, 2, 1, 50, 50, 2, TRUE) >>]

\* three units around one free cell: two aircraft on either side of it, whose shots hit
\* with probability one half, and a radar site, which cannot move, above it
ScenarioCrowd(seed) ==
    [config |-> ScenarioConfig(3, 2, 3, 3, -1, FALSE, seed),
     blue_entities |-> << Aircraft(1, "BLUE", <<0, 0>>, 2, 1, 2, 50, 50),
                          SAM(2, "BLUE", <<1, 1>>, 2, 1, 2, 50, 50, 1, TRUE) >>,
     red_entities |-> << Aircraft(3, "RED", <<2, 0>>, 2, 1, 2, 50, 50) >>]

\* four mobile entities around the free cell in the middle of a 3x3 grid, and a radar
\* site in a corner
ScenarioRush(seed) ==
    [config |-> ScenarioConfig(3, 3, 3, 3, -1, FALSE, seed),
     blue_entities |-> << Aircraft(1, "BLUE", <<0, 1>>, 1, 1, 1, 50, 50),
                          Decoy(2, "BLUE", <<1, 0>>) >>,
     red_entities |-> << AWACS(3, "RED", <<2, 1>>, 1),
                         Aircraft(4, "RED", <<1, 2>>, 1, 1, 1, 50, 50),
                         SAM(5, "RED", <<2, 2>>, 1, 1, 1, 50, 50, 1, TRUE) >>]

\* an aircraft that never misses and has a missile to spare, next to a radar site of
\* the other side that is switched on
ScenarioPair(seed) ==
    [config |-> ScenarioConfig(2, 2, 3, 3, -1, FALSE, seed),
     blue_entities |-> << Aircraft(1, "BLUE", <<0, 0>>, 1, 2, 1, 100, 100) >>,
     red_entities |-> << SAM(2, "RED", <<1, 0>>, 1, 1, 1, 50, 50, 1, TRUE) >>]

\* an aircraft in front of a radar site with the given weapon, x cells away
ScenarioRange(max_range, base, minp, x) ==
    [config |-> ScenarioConfig(4, 1, 3, 3, -1, FALSE, 0),
     blue_entities |-> << Aircraft(1, "BLUE", <<0, 0>>, 3, 1, 3, 100, 100) >>,
     red_entities |-> << SAM(2, "RED", <<x, 0>>, 3, 1, max_range, base, minp, 0, TRUE) >>]

Seeds == {0, 1, 2}

Scenarios ==
    {ScenarioAwacs, ScenarioSam, ScenarioInvalid, ScenarioOutside}
        \cup {ScenarioHalfAwacs(team) : team \in Team}
        \cup {ScenarioDuel(seed) : seed \in Seeds}
        \cup {ScenarioExhaustion(exhaustion) : exhaustion \in BOOLEAN}

\* the scenarios of the radar-site runs
SamScenarios == {ScenarioBattery(seed) : seed \in {0, 2, 8}}

\* the scenarios of the two-run comparison: seeded and unseeded
TwinScenarios == {ScenarioDuel(seed) : seed \in {1, NoSeed}}

\* hit probabilities in percent a weapon may be given
Percents == {0, 50, 100}

\* the scenarios of the weapon runs: every radar site its construction accepts
RangeScenarios ==
    {scenario \in {ScenarioRange(max_range, base, minp, x) :
                        max_range \in 0..MaxRange, base \in Percents, minp \in Percents,
                        x \in 1..3} :
        sam_post_init(scenario.red_entities[1])}

\* the scenarios of the crowded turns
CrowdScenarios ==
    {ScenarioCrowd(seed) : seed \in Seeds} \cup {ScenarioPair(0)}

\* what the operating system may hand an unseeded generator
Entropy == 0..MaxEntropy

(***************************************************************************)
(* Action maps submitted to step()                                         *)
(***************************************************************************)
ActionsFor(w) ==
    {ActionWait} \cup {ActionMove(d) : d \in MoveDir}
        \cup {ActionShoot(t) : t \in AllIds(w)}
        \cup {ActionToggle(b) : b \in BOOLEAN}

ActionMaps(w) ==
    UNION {[keys -> ActionsFor(w)] :
                keys \in {k \in SUBSET AllIds(w) : Cardinality(k) <= MaxActors}}

\* an id no entity of any scenario has
UnknownId == 9

\* what is submitted under the unknown id
UnknownActions == {ActionMove("UP"), ActionShoot(1)}

\* the action maps of the crowded turns: up to MaxCrowd keys, among them the ids of
\* dead entities and an id that is not in the world
CrowdActionMaps(w) ==
    UNION {{m \in [keys -> ActionsFor(w)] :
                UnknownId \in keys => m[UnknownId] \in UnknownActions} :
           keys \in {k \in SUBSET (AllIds(w) \cup {UnknownId}) : Cardinality(k) <= MaxCrowd}}

\* the number of turns explored from a world
Horizon(w) == IF Len(w.entities) > SmallWorld THEN MaxTurnLarge ELSE MaxTurn

\* the action maps of the radar-site runs: the aircraft waits, moves up or down or
\* shoots, the radar site waits, shoots or toggles
SamActionsFor(w, id) ==
    {ActionWait} \cup {ActionShoot(t) : t \in AllIds(w) \ {id}}
        \cup (IF get_entity(w, id).kind = "sam" THEN {ActionToggle(b) : b \in BOOLEAN}
              ELSE {ActionMove("UP"), ActionMove("DOWN")})

SamActionMaps(w) ==
    UNION {{f \in [keys -> UNION {SamActionsFor(w, id) : id \in keys}] :
                \A id \in keys : f[id] \in SamActionsFor(w, id)} :
           keys \in SUBSET AllIds(w)}

(***************************************************************************)
(* The environment as a state machine                                      *)
(***************************************************************************)
NoResult == VictoryResult("IN_PROGRESS", "", "NONE")

\* what a call leaves behind for inspection; idle counts the steps since reset() while
\* every one of them was given nothing but WAIT actions, and is -1 afterwards;
\* submitted is the action map the call was given
Outcome(op, raised, seeded, idle, submitted, r) ==
    [movement_results |-> r.movement_results, combat_results |-> r.combat_results,
     victory_result |-> r.victory_result, after_movement |-> r.after_movement,
     done |-> r.done, op |-> op, raised |-> raised, seeded |-> seeded, idle |-> idle,
     submitted |-> submitted]

\* an action map that holds nothing but WAIT
AllWait(actions) == \A id \in DOMAIN actions : actions[id].type = "WAIT"

\* idle after a step given these actions
Idle(actions) == IF last.idle >= 0 /\ AllWait(actions) THEN last.idle + 1 ELSE -1

NoStep ==
    [movement_results |-> << >>, combat_results |-> << >>, victory_result |-> NoResult,
     after_movement |-> << >>, done |-> FALSE]

\* the VictoryConditions built by reset()
VictoryConfig(scenario) ==
    [check_missile_exhaustion |-> scenario.config.check_missile_exhaustion,
     max_turns |-> scenario.config.max_turns,
     max_stalemate_turns |-> scenario.config.max_stalemate_turns,
     max_no_move_turns |-> scenario.config.max_no_move_turns]

\* GridCombatEnv.__init__
Init ==
    /\ world = << >>
    /\ twin = << >>
    /\ config = [check_missile_exhaustion |-> FALSE, max_turns |-> -1,
                 max_stalemate_turns |-> 0, max_no_move_turns |-> 0]
    /\ last = Outcome("init", FALSE, FALSE, -1, << >>, NoStep)

\* env.reset(scenario)
Reset(scenario, entropy) ==
    \E r \in {env_reset(scenario, entropy)} :
       /\ world' = << r.world >>
       /\ config' = VictoryConfig(scenario)
       /\ last' = Outcome("reset", ~r.ok, scenario.config.seed # NoSeed, 0, << >>, NoStep)
       /\ UNCHANGED twin

\* env.step(actions)
Step(actions) ==
    /\ world # << >>
    /\ world[1].turn < Horizon(world[1])
    /\ \E r \in {env_step(config, world[1], actions)} :
          /\ world' = << r.world >>
          /\ last' = Outcome("step", FALSE, last.seeded, Idle(actions), actions,
                             [r EXCEPT !.after_movement = << @ >>])
    /\ UNCHANGED <<config, twin>>

DoReset == \E scenario \in Scenarios : \E entropy \in Entropy : Reset(scenario, entropy)

DoStep == world # << >> /\ \E actions \in ActionMaps(world[1]) : Step(actions)

Next == DoReset \/ DoStep

Spec == Init /\ [][Next]_vars

(***************************************************************************)
(* Two independent runs: each has its own environment and its own system   *)
(* entropy, and both are given the same scenario and the same action maps. *)
(***************************************************************************)
TwinReset(scenario, entropy1, entropy2) ==
    \E r1 \in {env_reset(scenario, entropy1)} : \E r2 \in {env_reset(scenario, entropy2)} :
       /\ world' = << r1.world >>
       /\ twin' = << r2.world >>
       /\ config' = VictoryConfig(scenario)
       /\ last' = Outcome("reset", ~r1.ok, scenario.config.seed # NoSeed, 0, << >>, NoStep)

TwinStep(actions) ==
    /\ world # << >> /\ twin # << >>
    /\ world[1].turn < Horizon(world[1])
    /\ \E r1 \in {env_step(config, world[1], actions)} :
       \E r2 \in {env_step(config, twin[1], actions)} :
          /\ world' = << r1.world >>
          /\ twin' = << r2.world >>
          /\ last' = Outcome("step", FALSE, last.seeded, Idle(actions), actions,
                             [r1 EXCEPT !.after_movement = << @ >>])
    /\ UNCHANGED config

DoTwinReset ==
    \E scenario \in TwinScenarios : \E entropy1 \in Entropy : \E entropy2 \in Entropy :
        TwinReset(scenario, entropy1, entropy2)

DoTwinStep == world # << >> /\ \E actions \in ActionMaps(world[1]) : TwinStep(actions)

TwinNext == DoTwinReset \/ DoTwinStep

SpecTwin == Init /\ [][TwinNext]_vars

(***************************************************************************)
(* Longer runs of a radar site and an aircraft                             *)
(***************************************************************************)
SamStep(actions) ==
    /\ world # << >>
    /\ world[1].turn < MaxTurnSam
    /\ \E r \in {env_step(config, world[1], actions)} :
          /\ world' = << r.world >>
          /\ last' = Outcome("step", FALSE, last.seeded, Idle(actions), actions,
                             [r EXCEPT !.after_movement = << @ >>])
    /\ UNCHANGED <<config, twin>>

DoSamReset == \E scenario \in SamScenarios : Reset(scenario, 0)

DoSamStep == world # << >> /\ \E actions \in SamActionMaps(world[1]) : SamStep(actions)

SamNext == DoSamReset \/ DoSamStep

SpecSam == Init /\ [][SamNext]_vars

(***************************************************************************)
(* Crowded turns: every unit of a three-unit world acts in the same turn,  *)
(* and action maps may hold keys of dead and of unknown entities           *)
(***************************************************************************)
DoCrowdReset == \E scenario \in CrowdScenarios : Reset(scenario, 0)

DoCrowdStep ==
    /\ world # << >> /\ world[1].turn < Horizon(world[1])
    /\ \E actions \in CrowdActionMaps(world[1]) : Step(actions)

CrowdNext == DoCrowdReset \/ DoCrowdStep

SpecCrowd == Init /\ [][CrowdNext]_vars

(***************************************************************************)
(* Save and resume: the world of a running game is serialized, a second    *)
(* environment is handed the world restored from that form, and both are   *)
(* stepped with the same action maps.  reset() takes no world, so the      *)
(* restored world is WorldState.from_dict's, installed as it is.           *)
(***************************************************************************)
\* the scenarios of these runs and of the repeated resets, told apart by their
\* configuration and their entity ids
ResumeScenarios == {ScenarioPair(0), ScenarioSam, ScenarioDuel(1)}

\* env.reset(scenario) of the first environment; the second one has no world yet
ResumeReset(scenario) ==
    \E r \in {env_reset(scenario, 0)} :
       /\ world' = << r.world >>
       /\ twin' = << >>
       /\ config' = VictoryConfig(scenario)
       /\ last' = Outcome("reset", ~r.ok, scenario.config.seed # NoSeed, 0, << >>, NoStep)

\* saved = env.world.to_dict(); other.world = WorldState.from_dict(saved)
Restore(entropy) ==
    /\ world # << >> /\ twin = << >>
    /\ twin' = << from_dict(to_dict(world[1]), entropy) >>
    /\ last' = [last EXCEPT !.op = "restore"]
    /\ UNCHANGED <<world, config>>

DoResumeReset == \E scenario \in ResumeScenarios : ResumeReset(scenario)

DoRestore == \E entropy \in Entropy : Restore(entropy)

\* env.step(actions) of every environment of a list
RECURSIVE env_steps(_, _, _)
env_steps(cfg, ws, actions) ==
    IF ws = << >> THEN << >>
    ELSE << env_step(cfg, Head(ws), actions) >> \o env_steps(cfg, Tail(ws), actions)

\* the first environment plays on its own until the second one has a world, and from
\* then on both are given the same action map
ResumeStep(actions) ==
    \E steps \in {env_steps(config, world \o twin, actions)} :
       /\ world' = << steps[1].world >>
       /\ twin' = IF twin = << >> THEN << >> ELSE << steps[2].world >>
       /\ last' = Outcome("step", FALSE, last.seeded, Idle(actions), actions,
                          [steps[1] EXCEPT !.after_movement = << @ >>])
       /\ UNCHANGED config

DoResumeStep ==
    /\ world # << >> /\ world[1].turn < Horizon(world[1])
    /\ \E actions \in ActionMaps(world[1]) : ResumeStep(actions)

ResumeNext == DoResumeReset \/ DoRestore \/ DoResumeStep

SpecResume == Init /\ [][ResumeNext]_vars

(***************************************************************************)
(* Repeated reset: reset() appends the entity objects of the scenario to   *)
(* the new world, so the scenario a caller holds has, after some steps,    *)
(* the entities the world has.  The caller hands reset() that same         *)
(* scenario object again; the episode after it is not explored.            *)
(***************************************************************************)
\* the scenario is the one the current world was loaded from
Loaded(scenario) ==
    /\ world # << >>
    /\ VictoryConfig(scenario) = config
    /\ world[1].grid = [width |-> scenario.config.grid_width,
                        height |-> scenario.config.grid_height]
    /\ IdsOf(world[1].entities) = IdsOf(scenario.blue_entities \o scenario.red_entities)

\* the scenario object as it is now: its two lists hold the entities of the world
Held(scenario, w) ==
    [scenario EXCEPT !.blue_entities = get_team_entities(w, "BLUE", FALSE),
                     !.red_entities = get_team_entities(w, "RED", FALSE)]

\* env.reset(scenario) with the scenario object of the running episode
ResetAgain(scenario) ==
    /\ Loaded(scenario)
    /\ last.op \in {"reset", "step"} /\ ~last.raised
    /\ \E r \in {env_reset(Held(scenario, world[1]), 0)} :
          /\ world' = << r.world >>
          /\ config' = VictoryConfig(scenario)
          /\ last' = Outcome("again", ~r.ok, scenario.config.seed # NoSeed, 0, << >>, NoStep)
    /\ UNCHANGED twin

DoAgainStep ==
    /\ world # << >> /\ last.op # "again" /\ world[1].turn < Horizon(world[1])
    /\ \E actions \in ActionMaps(world[1]) : Step(actions)

DoResetAgain == \E scenario \in ResumeScenarios : ResetAgain(scenario)

AgainNext == DoResumeReset \/ DoAgainStep \/ DoResetAgain

SpecAgain == Init /\ [][AgainNext]_vars

(***************************************************************************)
(* Contended cells: one turn in which every entity waits or moves, under   *)
(* each seed of the world's generator                                      *)
(***************************************************************************)
RushScenarios == {ScenarioRush(seed) : seed \in 0..MaxRushSeed}

RushActionMaps(w) == [AllIds(w) -> {ActionWait} \cup {ActionMove(d) : d \in MoveDir}]

DoRushReset == \E scenario \in RushScenarios : Reset(scenario, 0)

DoRushStep ==
    /\ world # << >> /\ world[1].turn < Horizon(world[1])
    /\ \E actions \in RushActionMaps(world[1]) : Step(actions)

RushNext == DoRushReset \/ DoRushStep

SpecRush == Init /\ [][RushNext]_vars

(***************************************************************************)
(* Weapons: one turn of an aircraft and a radar site whose range and hit   *)
(* probabilities are any values the construction of a SAM accepts          *)
(***************************************************************************)
DoRangeReset == \E scenario \in RangeScenarios : Reset(scenario, 0)

DoRangeStep ==
    /\ world # << >> /\ world[1].turn < MaxTurnLarge
    /\ \E actions \in SamActionMaps(world[1]) : Step(actions)

RangeNext == DoRangeReset \/ DoRangeStep

SpecRange == Init /\ [][RangeNext]_vars

(***************************************************************************)
(* Properties                                                              *)
(***************************************************************************)
\* the alive entities of a world
Alive(w) == {i \in EntityIndexes(w) : w.entities[i].alive}

\* the cell a movement result was heading to
Destination(r) == <<r.old_pos[1] + delta(r.dir)[1], r.old_pos[2] + delta(r.dir)[2]>>

\* C1: after reset() and after every step(), whatever the action map, no two alive
\* entities occupy the same grid cell.
C1_Occupancy ==
    world # << >> =>
        \A i, j \in Alive(world[1]) :
            i # j => world[1].entities[i].pos # world[1].entities[j].pos

\* C1 witness: a step in which a mover was refused a cell that another alive entity
\* holds, both still alive afterwards.
C1_Witness ==
    /\ last.op = "step"
    /\ \E k \in DOMAIN last.movement_results :
          /\ last.movement_results[k].code = "BLOCKED"
          /\ \E i \in Alive(world[1]) :
                /\ world[1].entities[i].pos = Destination(last.movement_results[k])
                /\ world[1].entities[i].id # last.movement_results[k].entity_id
                /\ get_entity(world[1], last.movement_results[k].entity_id).alive

\* C2: after every step() every alive entity is inside the grid, and a MOVE whose
\* destination is outside the grid is rejected with OUT_OF_BOUNDS and leaves the
\* position unchanged.
C2_InBounds ==
    last.op = "step" =>
        /\ \A i \in Alive(world[1]) : in_bounds(world[1].grid, world[1].entities[i].pos)
        /\ \A k \in DOMAIN last.movement_results :
              (/\ last.movement_results[k].dir \in MoveDir
               /\ ~in_bounds(world[1].grid, Destination(last.movement_results[k])))
              => /\ ~last.movement_results[k].success
                 /\ last.movement_results[k].new_pos = last.movement_results[k].old_pos

\* C3: observations are recomputed between the movement phase and the combat phase:
\* every SHOOT of a step is judged visible or not visible against the view computed
\* from the world that this step's movement and toggles produced.
C3_FreshView ==
    last.op = "step" =>
        LET fresh == refresh_all_observations(last.after_movement[1])
        IN \A k \in DOMAIN last.combat_results :
              LET r == last.combat_results[k]
                  view == fresh.team_views[get_entity(fresh, r.attacker_id).team]
              IN /\ r.success => can_target(view, r.target_id)
                 /\ r.code = "NOT_VISIBLE" => ~can_target(view, r.target_id)

Checks(cfg, w) ==
    << check_awacs_destruction(w),
       check_all_enemies_destroyed(w),
       IF cfg.check_missile_exhaustion THEN check_missile_exhaustion(w) ELSE NoResult,
       check_turn_limit(cfg, w.turn),
       check_combat_stalemate(cfg, w.turns_without_shooting),
       check_movement_stagnation(cfg, w.turns_without_movement) >>

\* the positions of Checks(cfg, w) that report a finished game
Terminal(cfg, w) == {k \in 1..6 : is_game_over(Checks(cfg, w)[k])}

\* C5: the victory check of a step reports the first terminal result in the order
\* AWACS destruction, team elimination, missile exhaustion (if enabled), turn cap,
\* combat stalemate, movement stagnation, and IN_PROGRESS only if none is terminal;
\* so an elimination outcome wins over a stalemate or stagnation that holds as well.
C5_Priority ==
    last.op = "step" =>
        /\ \A k \in Terminal(config, world[1]) :
              (\A j \in 1..(k - 1) : j \notin Terminal(config, world[1]))
                  => last.victory_result = Checks(config, world[1])[k]
        /\ Terminal(config, world[1]) = {} <=> last.victory_result.result = "IN_PROGRESS"
        /\ (/\ Terminal(config, world[1]) \cap {1, 2} # {}
            /\ Terminal(config, world[1]) \cap {5, 6} # {})
              => last.victory_result \in {Checks(config, world[1])[1], Checks(config, world[1])[2]}

\* C5 witness: one side is eliminated while the stalemate or the stagnation threshold
\* is reached too, and elimination is what the step reports.
C5_Witness ==
    /\ last.op = "step"
    /\ Terminal(config, world[1]) \cap {1, 2} = {2}
    /\ Terminal(config, world[1]) \cap {5, 6} # {}
    /\ last.victory_result.winner # "NONE"

\* a side has an AWACS among all entities, and none of them is alive
LostAwacs(w, team) ==
    /\ \E i \in EntityIndexes(w) : w.entities[i].kind = "awacs" /\ w.entities[i].team = team
    /\ \A i \in EntityIndexes(w) :
          (w.entities[i].kind = "awacs" /\ w.entities[i].team = team) => ~w.entities[i].alive

\* C6: check_awacs_destruction makes a side lose exactly when it has an AWACS among
\* all entities and none alive: the other side wins if only one side is so, DRAW if
\* both, IN_PROGRESS otherwise; a side that never had an AWACS never loses by it.
C6_AwacsDestruction ==
    world # << >> =>
        LET r == check_awacs_destruction(world[1])
        IN /\ (LostAwacs(world[1], "BLUE") /\ LostAwacs(world[1], "RED"))
                => (r.result = "DRAW" /\ r.winner = "NONE")
           /\ (LostAwacs(world[1], "BLUE") /\ ~LostAwacs(world[1], "RED"))
                => (r.result = "RED_WINS" /\ r.winner = "RED")
           /\ (LostAwacs(world[1], "RED") /\ ~LostAwacs(world[1], "BLUE"))
                => (r.result = "BLUE_WINS" /\ r.winner = "BLUE")
           /\ (~LostAwacs(world[1], "BLUE") /\ ~LostAwacs(world[1], "RED"))
                => (r.result = "IN_PROGRESS" /\ r.winner = "NONE")

\* C6 witness: a side that never had an AWACS has no living entity left while the
\* other side's AWACS lives, and the check keeps the game in progress.
C6_Witness ==
    /\ last.op = "step"
    /\ \E t \in Team :
          /\ ~awacs_exists(world[1], t) /\ awacs_alive(world[1], opponent(t))
          /\ Len(get_team_entities(world[1], t, TRUE)) = 0
          /\ Len(get_team_entities(world[1], t, FALSE)) > 0
    /\ check_awacs_destruction(world[1]).result = "IN_PROGRESS"

\* the combat phase of the last step hit the last living AWACS of the team
HitLastAwacs(team) ==
    /\ last.op = "step"
    /\ \E k \in DOMAIN last.combat_results :
          /\ last.combat_results[k].hit
          /\ LET before == last.after_movement[1]
                 target == get_entity(before, last.combat_results[k].target_id)
             IN /\ target.kind = "awacs" /\ target.team = team /\ target.alive
                /\ \A i \in Alive(before) :
                      (before.entities[i].kind = "awacs" /\ before.entities[i].team = team)
                          => before.entities[i].id = target.id

\* C7: a step whose combat phase hits the last living AWACS of BLUE and the last
\* living AWACS of RED returns done with result DRAW and no winner.
C7_BothAwacs ==
    (HitLastAwacs("BLUE") /\ HitLastAwacs("RED"))
        => /\ last.done
           /\ last.victory_result.result = "DRAW"
           /\ last.victory_result.winner = "NONE"
           /\ world[1].game_over /\ world[1].winner = "NONE"

\* C7 witness: both AWACS were hit in the same combat phase.
C7_Witness == HitLastAwacs("BLUE") /\ HitLastAwacs("RED")

\* a team has no living entity
Eliminated(w, team) ==
    \A i \in EntityIndexes(w) : w.entities[i].team = team => ~w.entities[i].alive

\* C8: when no AWACS rule fires, a step that leaves one side without living entities
\* reports the other side as winner, and DRAW when both sides have none; a side with
\* a living entity never loses by the elimination check.
C8_Elimination ==
    last.op = "step" =>
        LET w == world[1]
            r == check_all_enemies_destroyed(w)
        IN /\ r.winner = "RED" => (Eliminated(w, "BLUE") /\ ~Eliminated(w, "RED"))
           /\ r.winner = "BLUE" => (Eliminated(w, "RED") /\ ~Eliminated(w, "BLUE"))
           /\ r.result = "DRAW" <=> (Eliminated(w, "BLUE") /\ Eliminated(w, "RED"))
           /\ ~is_game_over(check_awacs_destruction(w)) =>
                /\ (Eliminated(w, "BLUE") /\ Eliminated(w, "RED"))
                      => (last.done /\ last.victory_result.result = "DRAW"
                            /\ last.victory_result.winner = "NONE")
                /\ (Eliminated(w, "BLUE") /\ ~Eliminated(w, "RED"))
                      => (last.done /\ last.victory_result.result = "RED_WINS"
                            /\ last.victory_result.winner = "RED")
                /\ (Eliminated(w, "RED") /\ ~Eliminated(w, "BLUE"))
                      => (last.done /\ last.victory_result.result = "BLUE_WINS"
                            /\ last.victory_result.winner = "BLUE")

\* C8 witness: the kills of the step left both sides without living entities, no
\* AWACS rule fired, and the step reported the elimination draw.
C8_Witness ==
    /\ last.op = "step"
    /\ \E k \in DOMAIN last.combat_results : last.combat_results[k].hit
    /\ ~is_game_over(check_awacs_destruction(world[1]))
    /\ Eliminated(world[1], "BLUE") /\ Eliminated(world[1], "RED")
    /\ last.victory_result.reason = "All entities destroyed - DRAW"

\* C9: kills are deferred to the end of the combat phase: a shooter or target hit
\* earlier in the phase is judged as alive by the later shots of the phase, so two
\* entities that shoot each other and both hit are both dead after the step.
C9_DeferredKills ==
    last.op = "step" =>
        \A j \in DOMAIN last.combat_results :
            LET rj == last.combat_results[j]
                before == last.after_movement[1]
            IN /\ rj.code # "ENTITY_DEAD"
               /\ rj.code = "INVALID_TARGET"
                    => ~(HasEntity(before, rj.target_id) /\ get_entity(before, rj.target_id).alive)
               /\ \A i \in DOMAIN last.combat_results :
                     (/\ last.combat_results[i].hit /\ rj.hit
                      /\ last.combat_results[i].target_id = rj.attacker_id
                      /\ rj.target_id = last.combat_results[i].attacker_id)
                     => /\ ~get_entity(world[1], rj.attacker_id).alive
                        /\ ~get_entity(world[1], rj.target_id).alive

\* C9 witness: two entities shot each other in one combat phase, both shots hit and
\* both are dead.
C9_Witness ==
    /\ last.op = "step"
    /\ \E i, j \in DOMAIN last.combat_results :
          /\ i < j
          /\ last.combat_results[i].hit /\ last.combat_results[j].hit
          /\ last.combat_results[i].target_id = last.combat_results[j].attacker_id
          /\ last.combat_results[j].target_id = last.combat_results[i].attacker_id
          /\ ~get_entity(world[1], last.combat_results[i].attacker_id).alive
          /\ ~get_entity(world[1], last.combat_results[j].attacker_id).alive

\* C10: when reset() or step() returns, the pending-kill set is empty, and every
\* entity marked for kill during the step (every target of a hit) is dead.
C10_PendingKills ==
    world # << >> =>
        /\ get_pending_kills(world[1]) = {}
        /\ \A k \in DOMAIN last.combat_results :
              last.combat_results[k].hit
                  => ~get_entity(world[1], last.combat_results[k].target_id).alive

\* C10 witness: a step in which a shot hit, its target dead and no mark left.
C10_Witness ==
    /\ last.op = "step"
    /\ \E k \in DOMAIN last.combat_results :
          /\ last.combat_results[k].hit
          /\ ~get_entity(world[1], last.combat_results[k].target_id).alive
    /\ get_pending_kills(world[1]) = {}

\* a SHOOT of entity a at target_id that has a reason to be rejected in world w
Rejectable(w, a, target_id) ==
    \/ ~a.on \/ a.cooldown > 0 \/ a.missiles <= 0
    \/ ~HasEntity(w, target_id)
    \/ /\ HasEntity(w, target_id)
       /\ \/ ~get_entity(w, target_id).alive
          \/ target_id \notin w.team_views[a.team].visible_enemy_ids
          \/ distance2(a.pos, get_entity(w, target_id).pos)
                > a.missile_max_range * a.missile_max_range

\* C11: a SHOOT of a radar site that passes validation and is fired leaves its cooldown
\* counter at cooldown_steps, whether the shot hit or missed; a SHOOT of a radar site
\* that has a reason to be rejected (radar off, cooling down, no missiles, target
\* invalid, not visible or out of range) is rejected and leaves the counter as the
\* combat phase found it.
C11_Cooldown ==
    last.op = "step" =>
        \A k \in DOMAIN last.combat_results :
            LET r == last.combat_results[k]
                a == get_entity(last.after_movement[1], r.attacker_id)
            IN a.kind = "sam" =>
                 /\ r.success => get_entity(world[1], a.id).cooldown = a.cooldown_steps
                 /\ ~r.success => get_entity(world[1], a.id).cooldown = a.cooldown
                 /\ Rejectable(last.after_movement[1], a, r.target_id) <=> ~r.success

\* C11 witness: a radar site fired and missed, and is cooling down for cooldown_steps.
C11_Witness ==
    /\ last.op = "step"
    /\ \E k \in DOMAIN last.combat_results :
          /\ last.combat_results[k].success /\ ~last.combat_results[k].hit
          /\ LET a == get_entity(world[1], last.combat_results[k].attacker_id)
             IN a.kind = "sam" /\ a.cooldown_steps > 0 /\ a.cooldown = a.cooldown_steps

\* C12: while the cooldown counter of a living radar site is above 0, each step()
\* lowers it by exactly one at its housekeeping and never below 0 (so it is back at 0
\* within cooldown_steps turns of the shot), get_allowed_actions() of the site holds
\* no SHOOT, and a SHOOT submitted for the site (radar on, missiles left) is rejected
\* with COOLING_DOWN.
C12_CoolingDown ==
    [][(world # << >> /\ last'.op = "step") =>
        \A i \in Alive(world[1]) :
            LET sam == world[1].entities[i]
            IN (sam.kind = "sam" /\ sam.cooldown > 0) =>
                 /\ last'.after_movement[1].entities[i].cooldown = sam.cooldown - 1
                 /\ world'[1].entities[i].cooldown >= 0
                 /\ \A a \in sam_get_allowed_actions(world[1], sam) : a.type # "SHOOT"
                 /\ \A k \in DOMAIN last'.combat_results :
                       (/\ last'.combat_results[k].attacker_id = sam.id
                        /\ last'.after_movement[1].entities[i].on
                        /\ sam.missiles > 0)
                       => last'.combat_results[k].code = "COOLING_DOWN"]_vars

\* a living radar site of world w whose radar is switched off
SilentSam(w, e) == e.alive /\ e.kind = "sam" /\ ~e.on

\* C13: in the team views left by every observation refresh a living enemy radar site
\* whose radar is off is neither among the visible enemies nor among the observations,
\* whatever its distance to the observers; and a SHOOT at a radar site that is off when
\* the combat phase judges the shot is not fired: it fails NOT_VISIBLE.
C13_Stealth ==
    world # << >> =>
        /\ \A t \in Team : \A i \in EntityIndexes(world[1]) :
              LET e == world[1].entities[i]
              IN (SilentSam(world[1], e) /\ e.team # t) =>
                    /\ e.id \notin world[1].team_views[t].visible_enemy_ids
                    /\ \A o \in world[1].team_views[t].observations : o.entity_id # e.id
        /\ \A k \in DOMAIN last.combat_results :
              LET r == last.combat_results[k]
                  before == last.after_movement[1]
                  shooter == get_entity(before, r.attacker_id)
              IN (/\ HasEntity(before, r.target_id)
                  /\ SilentSam(before, get_entity(before, r.target_id))
                  /\ get_entity(before, r.target_id).team # shooter.team)
                 => /\ ~r.success
                    /\ validate_action(shooter, ActionShoot(r.target_id)).valid
                          => r.code = "NOT_VISIBLE"

\* entity e is in the view of its own team as a friendly: registered, and observed
\* where it is and as what it is
InOwnView(w, e) ==
    /\ e.id \in w.team_views[e.team].friendly_ids
    /\ \E o \in w.team_views[e.team].observations :
          o.entity_id = e.id /\ o.team = e.team /\ o.position = e.pos /\ o.kind = e.kind

\* C14: after the observation refresh of reset() and of every step(), every alive
\* entity is in the view of its own team as a friendly, also one whose active radar
\* range is 0 (a decoy, a radar site that is off).
C14_OwnRoster ==
    (world # << >> /\ ~last.raised) =>
        \A i \in Alive(world[1]) : InOwnView(world[1], world[1].entities[i])

\* C14 witness: after a step an alive entity with active radar range 0 that no
\* teammate's radar reaches is in the view of its own team.
C14_Witness ==
    /\ last.op = "step"
    /\ \E i \in Alive(world[1]) :
          LET e == world[1].entities[i]
          IN /\ get_active_radar_range(e) = 0
             /\ InOwnView(world[1], e)
             /\ \A j \in Alive(world[1]) :
                   world[1].entities[j].team = e.team => ~detects(world[1].entities[j], e)

\* C15: in every team view an observed decoy of the other team has kind "aircraft" and
\* an observed decoy of the viewing team has kind "decoy"; no observation of an enemy
\* has kind "decoy".
C15_DecoyKind ==
    world # << >> =>
        \A t \in Team : \A o \in world[1].team_views[t].observations :
            /\ get_entity(world[1], o.entity_id).kind = "decoy"
                  => o.kind = (IF get_entity(world[1], o.entity_id).team = t
                               THEN "decoy" ELSE "aircraft")
            /\ o.team # t => o.kind # "decoy"

\* C15 witness: after a step a living decoy is in its own team's view as a decoy and
\* in the other team's view as an aircraft.
C15_Witness ==
    /\ last.op = "step"
    /\ \E i \in Alive(world[1]) :
          LET e == world[1].entities[i]
          IN /\ e.kind = "decoy"
             /\ \E o \in world[1].team_views[e.team].observations :
                   o.entity_id = e.id /\ o.kind = "decoy"
             /\ \E o \in world[1].team_views[opponent(e.team)].observations :
                   o.entity_id = e.id /\ o.kind = "aircraft"

\* some entity of world w is at another position in world v
Moved(w, v) == \E i \in EntityIndexes(w) : v.entities[i].pos # w.entities[i].pos

\* C16: a step() leaves turns_without_movement at 0 if a MOVE succeeded in it (an
\* entity changed its position) and at its previous value plus one otherwise, so
\* blocked or rejected MOVE attempts, TOGGLE and WAIT do not reset it; reset() leaves
\* it at 0, and after k consecutive all-WAIT steps from reset() it is k.
C16_NoMoveCounter ==
    [][/\ last'.op = "reset" => world'[1].turns_without_movement = 0
       /\ (world # << >> /\ last'.op = "step") =>
            /\ Moved(world[1], world'[1])
                  <=> \E k \in DOMAIN last'.movement_results : last'.movement_results[k].success
            /\ world'[1].turns_without_movement =
                  (IF Moved(world[1], world'[1]) THEN 0
                   ELSE world[1].turns_without_movement + 1)
            /\ last'.idle >= 0 => world'[1].turns_without_movement = last'.idle]_vars

\* C16 witness: the second step in a row whose MOVE attempts all failed (blocked or
\* rejected) has the counter at 2.
C16_Witness ==
    /\ last.op = "step"
    /\ last.movement_results # << >>
    /\ \A k \in DOMAIN last.movement_results : ~last.movement_results[k].success
    /\ \E k \in DOMAIN last.movement_results : last.movement_results[k].code = "BLOCKED"
    /\ world[1].turns_without_movement = 2

\* some entity of world w has fewer missiles in world v: a missile was launched
Fired(w, v) == \E i \in EntityIndexes(w) : v.entities[i].missiles < w.entities[i].missiles

C18_IdleDraw ==
    (last.op = "step" /\ Terminal(config, world[1]) \cap 1..4 = {}) =>
        LET quiet == world[1].turns_without_shooting >= config.max_stalemate_turns
            still == world[1].turns_without_movement >= config.max_no_move_turns
        IN /\ (quiet \/ still) => /\ last.done
                                  /\ last.victory_result.result = "DRAW"
                                  /\ last.victory_result.winner = "NONE"
           /\ quiet => last.victory_result.reason = "Stalemate - No missiles fired - DRAW"
           /\ (still /\ ~quiet)
                 => last.victory_result.reason = "Stagnation - No movement - DRAW"
           /\ (~quiet /\ ~still) => /\ ~last.done
                                    /\ last.victory_result.result = "IN_PROGRESS"

\* C18 witness: a shot was fired and nobody moved for max_no_move_turns turns; nothing
\* of higher priority is terminal and the step reports the stagnation draw.
C18_Witness ==
    /\ last.op = "step"
    /\ Terminal(config, world[1]) \cap 1..4 = {}
    /\ world[1].turns_without_shooting < config.max_stalemate_turns
    /\ world[1].turns_without_movement = config.max_no_move_turns
    /\ last.done /\ last.victory_result.reason = "Stagnation - No movement - DRAW"

\* no living entity of world w that carries missiles has one left
Dry(w) ==
    \A i \in Alive(w) : w.entities[i].has_missiles => w.entities[i].missiles = 0

\* C19: with check_missile_exhaustion enabled and neither the AWACS check nor the
\* elimination check terminal, a step reports the missile-exhaustion DRAW exactly
\* when the living missile carriers have no missile left between them (the missiles
\* of dead shooters do not count); with the option disabled no step ever reports it.
C19_Exhaustion ==
    last.op = "step" =>
        /\ (config.check_missile_exhaustion /\ Terminal(config, world[1]) \cap {1, 2} = {})
              => (Dry(world[1]) <=> /\ last.done
                                    /\ last.victory_result.result = "DRAW"
                                    /\ last.victory_result.reason = "No missiles remaining - DRAW")
        /\ ~config.check_missile_exhaustion
              => last.victory_result.reason # "No missiles remaining - DRAW"

\* C19 witness: the last missile of the living was spent on a shooter that died with
\* a missile left; both sides have survivors and the step reports the exhaustion draw.
C19_Witness ==
    /\ last.op = "step"
    /\ config.check_missile_exhaustion
    /\ Terminal(config, world[1]) \cap {1, 2} = {}
    /\ Dry(world[1])
    /\ \E i \in EntityIndexes(world[1]) :
          ~world[1].entities[i].alive /\ world[1].entities[i].missiles > 0
    /\ last.victory_result.reason = "No missiles remaining - DRAW"

\* C20: the turn counter is 0 after reset() and one more after each step(); with
\* max_turns = N every step from the N-th on returns done, whatever the actions, the
\* turn-cap draw is reported only when the turn counter is >= N, and with max_turns =
\* None it is never reported.
C20_TurnCap ==
    [][/\ last'.op = "reset" => world'[1].turn = 0
       /\ (world # << >> /\ last'.op = "step") =>
            /\ world'[1].turn = world[1].turn + 1
            /\ (config.max_turns # -1 /\ world'[1].turn >= config.max_turns)
                  => (last'.done /\ world'[1].game_over)
            /\ last'.victory_result.reason = "Turn limit reached - DRAW"
                  => /\ config.max_turns # -1 /\ world'[1].turn >= config.max_turns
                     /\ last'.done /\ last'.victory_result.result = "DRAW"]_vars

\* C20 witness: the step that brings the turn counter to max_turns ends the game by
\* the turn cap alone: no other check is terminal.
C20_Witness ==
    /\ last.op = "step"
    /\ config.max_turns # -1 /\ world[1].turn = config.max_turns
    /\ Terminal(config, world[1]) = {4}
    /\ last.done /\ last.victory_result.reason = "Turn limit reached - DRAW"

\* the results an outcome holds for one entity
ResultsOf(out, id) ==
    [moves |-> SelectSeq(out.movement_results, LAMBDA r : r.entity_id = id),
     shots |-> SelectSeq(out.combat_results, LAMBDA r : r.attacker_id = id)]

\* the entities whose submitted MOVE or SHOOT was rejected in an outcome
Rejected(out) ==
    {id \in DOMAIN out.submitted :
        \/ \E i \in DOMAIN out.movement_results :
                out.movement_results[i].entity_id = id /\ ~out.movement_results[i].success
        \/ \E i \in DOMAIN out.combat_results :
                out.combat_results[i].attacker_id = id /\ ~out.combat_results[i].success}

\* what the claim says stays as it is for the entity of a rejected action
OwnState(e) == <<e.pos, e.missiles, e.cooldown, e.on>>

\* the step just taken, had the action of one entity been WAIT
AsWait(id) == env_step(config, world[1], [last'.submitted EXCEPT ![id] = ActionWait])

Movers(w, actions) ==
    {id \in DOMAIN actions \cap AllIds(w) :
        get_entity(w, id).alive /\ actions[id].type = "MOVE"}

Stray(w, actions) ==
    {id \in DOMAIN actions : ~HasEntity(w, id) \/ ~get_entity(w, id).alive}

\* an action map without one of its keys
Without(actions, key) == [id \in DOMAIN actions \ {key} |-> actions[id]]

\* C22: an action keyed by the id of a dead entity or by an id that is not in the world
\* has no effect: step() does not raise, a dead entity keeps its position, on-flag,
\* missiles and alive flag, and the turn (world, results, verdict, done flag) is the
\* one of the step given the action map without that key.
C22_StrayKeys ==
    [][last'.op = "step" =>
        \A key \in Stray(world[1], last'.submitted) :
            \A absent \in {env_step(config, world[1], Without(last'.submitted, key))} :
                /\ ~last'.raised
                /\ HasEntity(world[1], key) =>
                        \A e \in {get_entity(world[1], key)} :
                        \A f \in {get_entity(world'[1], key)} :
                            <<f.pos, f.on, f.missiles, f.alive>> =
                                <<e.pos, e.on, e.missiles, e.alive>>
                /\ world' = << absent.world >>
                /\ last'.movement_results = absent.movement_results
                /\ last'.combat_results = absent.combat_results
                /\ last'.victory_result = absent.victory_result
                /\ last'.done = absent.done]_vars

\* a turn given a TOGGLE under the id of a radar site that was dead before the turn,
\* or an action under an id that is not in the world, next to a MOVE that went through
C22_DeadKey ==
    /\ last.op = "step"
    /\ \E id \in DOMAIN last.submitted \cap AllIds(world[1]) :
            /\ ~get_entity(world[1], id).alive
            /\ get_entity(world[1], id).kind = "sam"
            /\ last.submitted[id].type = "TOGGLE"
            /\ \A i \in DOMAIN last.combat_results : last.combat_results[i].target_id # id
    /\ \E i \in DOMAIN last.movement_results : last.movement_results[i].success

C22_Witness ==
    /\ C22_DeadKey
    /\ UnknownId \in DOMAIN last.submitted

\* C23: for every world reachable by reset() and step(), serializing the world restored
\* from its serialized form gives that serialized form again: ids, kinds, teams,
\* positions, alive flags, on-flags, cooldowns, missiles, the enemy-fired maps, turn,
\* game-over fields, both idle counters and the generator state survive the round trip.
C23_RoundTrip ==
    world # << >> =>
        \A entropy \in Entropy :
            to_dict(from_dict(to_dict(world[1]), entropy)) = to_dict(world[1])

\* a finished game with a winner, in which a radar site that is switched on and cooling
\* down has fired, so that a team holds a record of enemy fire
C23_Witness ==
    /\ world # << >>
    /\ world[1].game_over /\ world[1].winner \in Team /\ world[1].turn > 0
    /\ \E i \in EntityIndexes(world[1]) :
            LET e == world[1].entities[i]
            IN e.kind = "sam" /\ e.on /\ e.cooldown > 0 /\ e.missiles < 2
                  /\ has_enemy_fired(world[1].team_views[opponent(e.team)], e.id)
    /\ \E i \in EntityIndexes(world[1]) : ~world[1].entities[i].alive

\* C24: a world restored from the serialized form of a running game, stepped with the
\* action maps the original world is stepped with, has after every step the same
\* serialized state and the same done flag as the original.
C24_Resume ==
    [][(last'.op = "step" /\ twin # << >>) =>
        \A resumed \in {env_step(config, twin[1], last'.submitted)} :
            /\ to_dict(resumed.world) = to_dict(world'[1])
            /\ resumed.done = last'.done]_vars

\* C26: whatever steps were run before, the world after reset(scenario) has turn 0, both
\* idle counters 0, no game over, no winner, no pending kills, and every entity of the
\* scenario alive at its start position with its missiles, its on-flag and cooldown 0:
\* it is the world of the first reset with that scenario, and reset() does not raise.
C26_Discards ==
    last.op \in {"reset", "again"} =>
        /\ ~last.raised
        /\ world[1].turn = 0
        /\ world[1].turns_without_shooting = 0 /\ world[1].turns_without_movement = 0
        /\ ~world[1].game_over /\ world[1].winner = "NONE"
        /\ get_pending_kills(world[1]) = {}
        /\ \E scenario \in ResumeScenarios :
                /\ Loaded(scenario)
                /\ world[1].entities = scenario.blue_entities \o scenario.red_entities
                /\ world = << env_reset(scenario, 0).world >>

\* entities a caller may try to add to a world: one per cell of the grid and of the
\* ring of cells around it
Newcomers(w) ==
    {Decoy(UnknownId, "BLUE", <<x, y>>) : x \in -1..w.grid.width, y \in -1..w.grid.height}

\* C27: add_entity fails, and leaves the entity list and the id index as they were, when
\* the position is outside the grid or occupied by an alive entity, and appends the
\* entity otherwise; a reset() that does not raise has therefore placed every entity
\* in bounds on a cell of its own, and a scenario with two entities on one cell or
\* with an entity out of bounds makes reset() raise.
C27_Placement ==
    world # << >> =>
        /\ \A e \in Newcomers(world[1]) : \A r \in {add_entity(world[1], e)} :
                IF ~in_bounds(world[1].grid, e.pos) \/ is_position_occupied(world[1], e.pos)
                THEN ~r.ok /\ r.world.entities = world[1].entities
                           /\ AllIds(r.world) = AllIds(world[1])
                ELSE r.ok /\ r.world.entities = Append(world[1].entities, e)
        /\ (last.op = "reset" /\ ~last.raised) =>
                \A i, j \in EntityIndexes(world[1]) :
                    /\ in_bounds(world[1].grid, world[1].entities[i].pos)
                    /\ i # j => world[1].entities[i].pos # world[1].entities[j].pos
        /\ last.op = "reset" =>
                \A scenario \in {ScenarioInvalid, ScenarioOutside} :
                    (/\ VictoryConfig(scenario) = config
                     /\ world[1].grid.width = scenario.config.grid_width
                     /\ world[1].grid.height = scenario.config.grid_height) => last.raised

\* reset() has raised for the entity out of bounds and left the one before it in the
\* world, which has a free cell next to it
C27_Witness ==
    /\ last.op = "reset" /\ last.raised
    /\ config = VictoryConfig(ScenarioOutside)
    /\ Len(world[1].entities) = 1
    /\ \E e \in Newcomers(world[1]) : add_entity(world[1], e).ok

\* distances from 0 to the maximum range of a weapon, times 100, in steps of a half
Distances(e) == {50 * k : k \in 0..(2 * e.missile_max_range)}

\* the hit probability of an entity's weapon at a distance
p(e, dist100) ==
    hit_probability(dist100, e.missile_max_range, e.base_hit_prob, e.min_hit_prob)

\* C28: for every armed entity and all distances d1, d2 between 0 and its maximum
\* range, the hit probability lies between min_hit_prob and base_hit_prob, and
\* d1 <= d2 implies p(d1) >= p(d2).
C28_HitBounds ==
    world # << >> =>
        \A i \in EntityIndexes(world[1]) :
            \A e \in {world[1].entities[i]} :
                e.has_missiles =>
                    \A d1, d2 \in Distances(e) :
                        /\ e.min_hit_prob <= p(e, d1) /\ p(e, d1) <= e.base_hit_prob
                        /\ d1 <= d2 => p(e, d1) >= p(e, d2)

\* C29: the turn counter is 0 after reset() and exactly one more after each step();
\* within the step the increment is the only change: housekeeping, the movement and
\* combat phases, sensing and the victory check leave the counter as they found it.
C29_TurnCounter ==
    [][/\ (last'.op = "reset" /\ world' # << >>) => world'[1].turn = 0
       /\ (world # << >> /\ last'.op = "step") =>
            \A w \in {world[1]} : \A actions \in {last'.submitted} :
                /\ world'[1].turn = w.turn + 1
                /\ last'.after_movement[1].turn = w.turn + 1
                /\ housekeeping(w).turn = w.turn
                /\ resolve_actions(w, actions).world.turn = w.turn
                /\ resolve_combat(w, actions).world.turn = w.turn
                /\ refresh_all_observations(w).turn = w.turn]_vars

\* C29 witness: the second step in a row has moved an entity, resolved a shot and
\* ended the game, and the counter is 2
C29_Witness ==
    /\ world # << >> /\ last.op = "step" /\ world[1].turn = 2
    /\ \E i \in DOMAIN last.movement_results : last.movement_results[i].success
    /\ last.combat_results # << >>
    /\ last.done

\* the cell a move of an entity leads to
Target(e, action) == <<e.pos[1] + delta(action.dir)[1], e.pos[2] + delta(action.dir)[2]>>

\* the entities that are able to move and are given a MOVE into a cell
Contenders(w, actions, cell) ==
    {id \in AllIds(w) \cap DOMAIN actions :
        /\ actions[id].type = "MOVE"
        /\ validate_action(get_entity(w, id), actions[id]).valid
        /\ Target(get_entity(w, id), actions[id]) = cell}

\* the place of an entity's result in the order the moves were resolved in
Turn(results, id) == CHOOSE i \in DOMAIN results : results[i].entity_id = id

\* C30: when two or more entities are given a MOVE into the same free cell in one
\* turn, the contender resolved first ends the movement phase in that cell with a
\* successful result, and every other contender is where it was with a failed
\* (BLOCKED) result.
C30_Contention ==
    [][(world # << >> /\ last'.op = "step") =>
        \A w \in {world[1]} : \A actions \in {last'.submitted} :
        \A after \in {last'.after_movement[1]} : \A results \in {last'.movement_results} :
        \A x \in 0..(w.grid.width - 1) : \A y \in 0..(w.grid.height - 1) :
        \A contenders \in {Contenders(w, actions, <<x, y>>)} :
            (~is_position_occupied(w, <<x, y>>) /\ Cardinality(contenders) >= 2) =>
                \E first \in contenders :
                    /\ get_entity(after, first).pos = <<x, y>>
                    /\ results[Turn(results, first)].success
                    /\ \A id \in contenders \ {first} :
                          /\ Turn(results, first) < Turn(results, id)
                          /\ get_entity(after, id).pos = get_entity(w, id).pos
                          /\ ~results[Turn(results, id)].success
                          /\ results[Turn(results, id)].code = "BLOCKED"]_vars

\* C30 witness: four entities were sent into the middle cell; the one with the highest
\* id was resolved first and is there, the three others were blocked
C30_Witness ==
    /\ world # << >> /\ last.op = "step"
    /\ Cardinality({i \in DOMAIN last.movement_results :
                        /\ last.movement_results[i].code = "BLOCKED"
                        /\ Target([pos |-> last.movement_results[i].old_pos],
                                  last.movement_results[i]) = <<1, 1>>}) = 3
    /\ last.movement_results[1].entity_id = 4
    /\ last.movement_results[1].success
    /\ get_entity(world[1], 4).pos = <<1, 1>>

\* a cell that holds entities, all of them dead
Wreckage(w, cell) ==
    /\ \E i \in EntityIndexes(w) : w.entities[i].pos = cell
    /\ \A i \in EntityIndexes(w) : w.entities[i].pos = cell => ~w.entities[i].alive

\* C31: when entity b is given a MOVE out of the cell entity a is given a MOVE into,
\* and nobody else moves into that cell, a succeeds exactly when b's move was resolved
\* before a's and succeeded; and in the world a step leaves, a move of a living mobile
\* entity into a cell that holds only dead entities succeeds.
C31_Dynamic ==
    [][(world # << >> /\ last'.op = "step") =>
        \A w \in {world[1]} : \A actions \in {last'.submitted} :
        \A results \in {last'.movement_results} : \A after \in {world'[1]} :
            /\ \A a, b \in AllIds(w) \cap DOMAIN actions :
                    (/\ a # b /\ get_entity(w, b).alive /\ actions[b].type = "MOVE"
                     /\ Contenders(w, actions, get_entity(w, b).pos) = {a}) =>
                        (results[Turn(results, a)].success
                            <=> /\ Turn(results, b) < Turn(results, a)
                                /\ results[Turn(results, b)].success)
            /\ \A i \in EntityIndexes(after) : \A d \in MoveDir :
                \A e \in {after.entities[i]} :
                    (/\ validate_action(e, ActionMove(d)).valid
                     /\ Wreckage(after, Target(e, ActionMove(d)))) =>
                        \A r \in {resolve_single(after, e, ActionMove(d))} :
                            /\ r.result.success
                            /\ get_entity(r.world, e.id).pos = Target(e, ActionMove(d))]_vars

\* C31 witness: the first move resolved took an entity out of its cell and the second
\* one took another entity into that cell
C31_Witness ==
    /\ world # << >> /\ last.op = "step" /\ Len(last.movement_results) = 2
    /\ last.movement_results[1].success /\ last.movement_results[2].success
    /\ last.movement_results[2].new_pos = last.movement_results[1].old_pos
    /\ in_bounds(world[1].grid, last.movement_results[1].new_pos)

\* the action map that sends two entities on their way and says nothing of the others
Duel(a, da, b, db) == [id \in {a, b} |-> IF id = a THEN ActionMove(da) ELSE ActionMove(db)]

\* the seeds under which an entity is in a cell after the movement phase of a world
\* whose generator is in the state the seed gives it
Favours(w, actions, id, cell) ==
    {seed \in 0..MaxRushSeed :
        \E r \in {resolve_actions([w EXCEPT !.rng = SeedRng(seed)], actions)} :
            get_entity(r.world, id).pos = cell}

\* C32: for two entities that are given a MOVE into the same free cell, there is a
\* seeded state of the world's generator under which the one with the lower id takes
\* the cell and one under which the one with the higher id takes it.
C32_NoIdBias ==
    (world # << >> /\ last.op = "reset" /\ ~last.raised) =>
        \A w \in {world[1]} : \A a, b \in AllIds(w) : \A da, db \in MoveDir :
        \A actions \in {Duel(a, da, b, db)} :
        \A cell \in {Target(get_entity(w, a), actions[a])} :
            (/\ a < b /\ in_bounds(w.grid, cell) /\ ~is_position_occupied(w, cell)
             /\ Contenders(w, actions, cell) = {a, b}) =>
                /\ Favours(w, actions, a, cell) # {}
                /\ Favours(w, actions, b, cell) # {}
                /\ Favours(w, actions, a, cell) \cap Favours(w, actions, b, cell) = {}

\* C32 witness: two entities were sent into the same cell and the one with the higher
\* id was resolved first and took it
C32_Witness ==
    /\ world # << >> /\ last.op = "step" /\ Len(last.movement_results) = 2
    /\ last.movement_results[1].success /\ last.movement_results[2].code = "BLOCKED"
    /\ last.movement_results[1].entity_id > last.movement_results[2].entity_id
    /\ Target([pos |-> last.movement_results[2].old_pos], last.movement_results[2])
            = last.movement_results[1].new_pos

\* get_allowed_actions of an AWACS or a decoy
MobileAllowed(w, e) ==
    IF e.kind = "awacs" THEN awacs_get_allowed_actions(w, e) ELSE decoy_get_allowed_actions(w, e)

\* C33: get_allowed_actions of a living AWACS or decoy holds WAIT, holds MOVE(d) exactly
\* for the directions d whose neighbouring cell is inside the grid, occupied or not,
\* and holds nothing else; for a dead one it is empty.
C33_MobileActions ==
    world # << >> =>
        \A w \in {world[1]} : \A i \in EntityIndexes(w) : \A e \in {w.entities[i]} :
            e.kind \in {"awacs", "decoy"} =>
                \A allowed \in {MobileAllowed(w, e)} :
                    IF e.alive
                    THEN allowed = {ActionWait} \cup
                            {ActionMove(d) : d \in
                                {dir \in MoveDir : in_bounds(w.grid, Target(e, ActionMove(dir)))}}
                    ELSE allowed = {}

\* C33 witness: after a step a living AWACS stands next to an occupied cell of the grid
\* and at the edge of the grid, and another AWACS is dead
C33_Witness ==
    /\ world # << >> /\ last.op = "step"
    /\ \E i, j \in EntityIndexes(world[1]) :
        \E e \in {world[1].entities[i]} : \E dead \in {world[1].entities[j]} :
            /\ e.kind = "awacs" /\ e.alive /\ dead.kind = "awacs" /\ ~dead.alive
            /\ \E d \in MoveDir :
                    /\ is_position_occupied(world[1], Target(e, ActionMove(d)))
                    /\ ActionMove(d) \in awacs_get_allowed_actions(world[1], e)
            /\ \E d \in MoveDir : ActionMove(d) \notin awacs_get_allowed_actions(world[1], e)

\* the enemies a team has on record as having fired, in a world
FiredAt(w, team) == {id \in AllIds(w) : has_enemy_fired(w.team_views[team], id)}

\* C34: an enemy a team view has on record as having fired is on record after every
\* later step() (from the end of the step it fired in), in the world restored from the serialized one, and after a reset of
\* the view, which leaves no observation and no visible enemy.
C34_StickyFired ==
    [][world # << >> =>
        \A team \in Team :
            /\ last'.op = "step" =>
                    /\ FiredAt(world[1], team) \subseteq FiredAt(world'[1], team)
                    /\ twin # << >> => FiredAt(twin[1], team) \subseteq FiredAt(twin'[1], team)
                    /\ \A i \in DOMAIN last'.combat_results :
                          \A shot \in {last'.combat_results[i]} :
                            (shot.success /\ get_entity(world[1], shot.target_id).team = team)
                                => shot.attacker_id \in FiredAt(world'[1], team)
            /\ last'.op = "restore" =>
                    /\ FiredAt(world[1], team) = FiredAt(twin'[1], team)
                    /\ \A kept \in {from_dict(to_dict(twin'[1]), 0)} :
                            FiredAt(kept, team) = FiredAt(world[1], team)
            /\ \A tv \in {world[1].team_views[team]} : \A cleared \in {TeamViewReset(tv)} :
                    /\ \A id \in AllIds(world[1]) :
                            has_enemy_fired(tv, id) => has_enemy_fired(cleared, id)
                    /\ cleared.observations = {} /\ cleared.visible_enemy_ids = {}]_vars

\* C34 witness: an entity fired in the first turn, the world was saved and restored, and
\* after a second turn without a shot both worlds still have it on record while it is
\* in nobody's sight
C34_Witness ==
    /\ world # << >> /\ twin # << >> /\ last.op = "step" /\ world[1].turn = 2
    /\ last.combat_results = << >>
    /\ \E team \in Team : \E id \in FiredAt(world[1], team) :
            /\ id \in FiredAt(twin[1], team)
            /\ id \notin world[1].team_views[team].visible_enemy_ids

\* is the living entity E within the radar of a living entity of the team?
InRadar(w, team, E) ==
    \E i \in EntityIndexes(w) : \E o \in {w.entities[i]} :
        /\ o.alive /\ o.team = team /\ o.kind # "decoy"
        /\ ~(o.kind = "sam" /\ ~o.on) /\ o.radar_range > 0
        /\ distance2(o.pos, E.pos) <= o.radar_range * o.radar_range

\* C35: after an observation refresh a living enemy is in a team's visible-enemy set
\* exactly when it is not a toggled-off SAM and within the active radar range of a
\* living entity of the team; a dead entity is in no visible-enemy set, in no
\* observation and among no observers.
C35_Visibility ==
    world # << >> =>
        \A team \in Team : \A tv \in {world[1].team_views[team]} :
            /\ \A i \in EntityIndexes(world[1]) : \E E \in {world[1].entities[i]} :
                  /\ (E.alive /\ E.team # team) =>
                        (E.id \in tv.visible_enemy_ids <=>
                            (~(E.kind = "sam" /\ ~E.on) /\ InRadar(world[1], team, E)))
                  /\ ~E.alive =>
                        /\ E.id \notin tv.visible_enemy_ids
                        /\ \A o \in tv.observations :
                                o.entity_id # E.id /\ E.id \notin o.seen_by

\* C35 witness: after a step a SAM that was switched on is seen by the enemy aircraft
\* next to it
C35_Witness ==
    /\ world # << >> /\ last.op = "step"
    /\ \E i \in EntityIndexes(world[1]) : \E E \in {world[1].entities[i]} :
            /\ E.kind = "sam" /\ E.on /\ E.alive
            /\ E.id \in DOMAIN last.submitted /\ last.submitted[E.id].type = "TOGGLE"
            /\ \E team \in Team \ {E.team} :
                    E.id \in world[1].team_views[team].visible_enemy_ids

\* C36: after every step() the done flag it returned equals world.game_over
C36_DoneIsGameOver ==
    (world # << >> /\ last.op = "step") => last.done = world[1].game_over

\* C37: once a step() has set world.game_over, every later step() leaves game_over
\* true and world.winner and world.game_over_reason as the first terminal step set them
C37_FirstVerdictKept ==
    [][(world # << >> /\ world[1].game_over /\ last'.op = "step") =>
            /\ world'[1].game_over
            /\ world'[1].winner = world[1].winner
            /\ world'[1].game_over_reason = world[1].game_over_reason]_vars

\* the number of shots an entity fired in an outcome
Shots(out, id) ==
    Cardinality({i \in DOMAIN out.combat_results :
        out.combat_results[i].attacker_id = id /\ out.combat_results[i].success})

\* C38: over every step() each entity's missiles go down by one per shot it fired and
\* by nothing else (a rejected SHOOT costs nothing), it fires at most once, never with
\* zero missiles, and no missile count is negative.
C38_MissileAccounting ==
    [][(world # << >> /\ last'.op = "step") =>
        \A i \in EntityIndexes(world[1]) :
          \A before \in {world[1].entities[i]} : \A after \in {world'[1].entities[i]} :
            /\ after.id = before.id
            /\ after.missiles = before.missiles - Shots(last', before.id)
            /\ Shots(last', before.id) <= 1
            /\ before.missiles = 0 => Shots(last', before.id) = 0
            /\ before.missiles >= 0 /\ after.missiles >= 0]_vars

\* C38 witness: a radar site that has fired all its missiles, is switched on and has
\* cooled down had its SHOOT at a living enemy rejected for want of missiles
C38_Witness ==
    /\ world # << >> /\ last.op = "step"
    /\ \E i \in DOMAIN last.combat_results : \E shot \in {last.combat_results[i]} :
        \E shooter \in {get_entity(world[1], shot.attacker_id)} :
            /\ shot.code = "NO_MISSILES" /\ ~shot.success
            /\ shooter.missiles = 0 /\ shooter.on /\ shooter.cooldown = 0
            /\ get_entity(world[1], shot.target_id).alive

\* was the entity hit by a shot of the outcome?
HitIn(out, id) ==
    \E i \in DOMAIN out.combat_results :
        out.combat_results[i].hit /\ out.combat_results[i].target_id = id

\* did the entity act with success in the outcome (a move or a shot)?
ActedIn(out, id) ==
    \/ \E i \in DOMAIN out.movement_results :
            out.movement_results[i].entity_id = id /\ out.movement_results[i].success
    \/ \E i \in DOMAIN out.combat_results :
            out.combat_results[i].attacker_id = id /\ out.combat_results[i].success

\* C39: over every step() the entity list keeps its entities in place; a dead entity
\* stays dead, where it is, with its radar switch and its missiles as they were, and
\* neither moves nor fires; an entity that dies in the step was alive after the movement
\* phase and was hit in the combat phase.
C39_Entities ==
    [][(world # << >> /\ last'.op = "step") =>
        /\ IdsOf(world'[1].entities) = IdsOf(world[1].entities)
        /\ IdsOf(last'.after_movement[1].entities) = IdsOf(world[1].entities)
        /\ \A i \in EntityIndexes(world[1]) :
             \A before \in {world[1].entities[i]} : \A after \in {world'[1].entities[i]} :
                /\ ~before.alive =>
                        /\ after = before
                        /\ ~ActedIn(last', before.id)
                /\ (before.alive /\ ~after.alive) =>
                        /\ last'.after_movement[1].entities[i].alive
                        /\ HitIn(last', before.id)]_vars

\* C39 witness: a step in which an entity killed in an earlier turn was told to move,
\* shoot or toggle
C39_Witness ==
    /\ world # << >> /\ last.op = "step"
    /\ \E i \in EntityIndexes(world[1]) : \E e \in {world[1].entities[i]} :
            /\ ~e.alive /\ ~HitIn(last, e.id)
            /\ e.id \in DOMAIN last.submitted
            /\ last.submitted[e.id].type \in {"MOVE", "SHOOT", "TOGGLE"}

\* indexes of the radar sites of a world
Sams(w) == {i \in EntityIndexes(w) : w.entities[i].kind = "sam"}

\* the TOGGLE actions among a set of actions
Toggles(actions) == {a \in actions : a.type = "TOGGLE"}

\* over a step() every radar site stays where it is, in the movement phase and in the
\* whole turn; a MOVE submitted for a living site is rejected with NO_CAPABILITY, and
\* the turn counts as one without movement unless another entity moved
SamStays ==
    \A i \in Sams(world[1]) :
      \A before \in {world[1].entities[i]} : \A after \in {world'[1].entities[i]} :
        /\ after.pos = before.pos
        /\ last'.after_movement[1].entities[i].pos = before.pos
        /\ \A k \in DOMAIN last'.movement_results : \A move \in {last'.movement_results[k]} :
                move.entity_id = before.id =>
                    /\ ~move.success /\ move.code = "NO_CAPABILITY"
                    /\ move.old_pos = before.pos /\ move.new_pos = before.pos
        /\ (before.alive /\ ActionsGet(last'.submitted, before.id).type = "MOVE") =>
                \E k \in DOMAIN last'.movement_results :
                    last'.movement_results[k].entity_id = before.id
        /\ (\A k \in DOMAIN last'.movement_results : \A move \in {last'.movement_results[k]} :
                move.success => move.entity_id = before.id) =>
                last'.after_movement[1].turns_without_movement
                    = world[1].turns_without_movement + 1

\* C40 as claimed: over every step() a radar site stays where it is and its MOVE is
\* rejected and counts for nothing, and the allowed actions of every radar site hold no
\* MOVE and exactly one TOGGLE, the one to the opposite of its radar switch
C40_AlwaysToggle ==
    [][(world # << >> /\ last'.op = "step") =>
        /\ SamStays
        /\ \A i \in Sams(world'[1]) : \A e \in {world'[1].entities[i]} :
            \A allowed \in {sam_get_allowed_actions(world'[1], e)} :
                /\ \A a \in allowed : a.type # "MOVE"
                /\ Toggles(allowed) = {ActionToggle(~e.on)}]_vars

\* C40, amended: over every step() a radar site stays where it is and its MOVE is
\* rejected and counts for nothing; the allowed actions of a living radar site hold no
\* MOVE and exactly one TOGGLE, the one to the opposite of its radar switch, and a dead
\* radar site has no allowed action at all
C40_Stationary ==
    [][(world # << >> /\ last'.op = "step") =>
        /\ SamStays
        /\ \A i \in Sams(world'[1]) : \A e \in {world'[1].entities[i]} :
            \A allowed \in {sam_get_allowed_actions(world'[1], e)} :
                /\ \A a \in allowed : a.type # "MOVE"
                /\ Toggles(allowed) = IF e.alive THEN {ActionToggle(~e.on)} ELSE {}
                /\ ~e.alive => allowed = {}]_vars

\* C40 witness: a living radar site was told to move in a turn in which nothing else
\* moved: it is where it was and the turn counts as one without movement
C40_Witness ==
    /\ world # << >> /\ last.op = "step"
    /\ \E i \in Sams(world[1]) : \E e \in {world[1].entities[i]} :
            /\ ActionsGet(last.submitted, e.id).type = "MOVE"
            /\ \E k \in DOMAIN last.movement_results :
                    /\ last.movement_results[k].entity_id = e.id
                    /\ last.movement_results[k].code = "NO_CAPABILITY"
            /\ world[1].turns_without_movement > 0
            /\ e.alive /\ Toggles(sam_get_allowed_actions(world[1], e)) # {}

====
